---------------------------- MODULE Spec2Model ----------------------------
(***************************************************************************)
(* A model of the peer coordination and access-control core of the P2P     *)
(* Academic Library ("The Knowledge Exchange"): the reputation engine and  *)
(* the download gate, the chunked transfer manager, the token-bucket       *)
(* throttler, peer discovery and the content index.                        *)
(*                                                                         *)
(* Reputation scores are float64 in the source; every delta and threshold  *)
(* of the program is a multiple of 0.1, so the model counts scores in      *)
(* tenths of a point (5.0 is 50, the threshold 3.0 is 30).                 *)
(*                                                                         *)
(* The module holds several specifications over one set of variables:      *)
(*   Spec          the reputation engine with the HTTP download/upload     *)
(*                 handlers, the event consumer and the decay task         *)
(*   SpecCalc      CalculateReputation / CanDownload applied to any peer   *)
(*   SpecTransfer  the transfer manager (Download, HandleUploadRequest,    *)
(*                 CancelTransfer)                                         *)
(*   SpecSlots     the transfer manager with more callers than slots       *)
(*   SpecThrottle  one throttler: refill, Acquire, UpdateReputation        *)
(*   SpecThrottleFair  SpecThrottle under fair scheduling                  *)
(*   SpecTier      determineTier applied to any reputation                 *)
(*   SpecEvents    the reputation event queue, its consumer and the decay  *)
(*   SpecPresence  peer discovery: announcements, leaves, heartbeats and   *)
(*                 the cleanup sweep                                       *)
(*   SpecBroadcast peer discovery: events delivered to subscribers         *)
(*   SpecIndex     the content index and its file records                  *)
(*   SpecReputation  CalculateReputation called on any registered peer     *)
(*   SpecStudent   Student.RecordUpload / RecordDownload                   *)
(*   SpecRating    the rating service: RateFile, RatePeer, its consumer    *)
(*   SpecSearch    FileIndex.Search applied to any index and query         *)
(*   SpecCID       the two content-identifier functions                    *)
(*   SpecSweep     discovery's publishers and broadcaster, fairly scheduled *)
(*   SpecShutdown  Server.Stop racing with senders and consumers           *)
(*   SpecDrain     the reputation queue through a shutdown, fairly         *)
(*   SpecTransferFair  SpecTransfer under fair scheduling                  *)
(*   SpecStop      Server.Stop and the background tasks, fairly            *)
(*   SpecManager   the throttling manager and its throttlers               *)
(*   SpecIntegrity the integrity checker and its cache                     *)
(*   SpecScan      Indexer.ScanDirectory, fairly scheduled                 *)
(*                 scheduled                                               *)
(* Each specification leaves the variables of the other parts unchanged.   *)
(***************************************************************************)
EXTENDS Integers, Sequences, FiniteSets, Bags, TLC

VARIABLES
  \* ---- models.PeerRegistry / models.Student
  registry,      \* ids in PeerRegistry.peers
  score,         \* Student.ReputationScore, in tenths
  uploads,       \* Student.TotalUploads
  downloads,     \* Student.TotalDownloads
  isLeecher,     \* Student.IsLeecher
  idle24h,       \* peers whose LastSeen is more than 24h old
  online,        \* Student.IsOnline
  timeouts,      \* per peer: timeout events since it was last marked online
  \* ---- analytics.ReputationService
  eventChan,     \* ReputationService.eventChan (FIFO)
  eventHistory,  \* ReputationService.eventHistory
  upd,           \* per task (consumer, decay): position inside applyEvent
  decayTodo,     \* decay task: peers of the GetAllPeers snapshot still to visit
  \* ---- models.FileIndex and the gateway handlers
  files,         \* CIDs in FileIndex.files
  downloadCount, \* AcademicFile.DownloadCount of the indexed record
  req,           \* per HTTP handler goroutine: the request being served
  ops,           \* number of operations started so far (bounds the run)
  answer,        \* SpecCalc: the last CanDownload call and what it returned
  \* ---- library.TransferManager
  semaphore,     \* len(TransferManager.semaphore): the slots held
  transfers,     \* TransferManager.transfers: task -> Transfer record
  task,          \* per caller of Download / HandleUploadRequest
  disk,          \* bytes of the output file (download) per task
  cancelInfo,    \* per transfer: what CancelTransfer returned, and the
                 \* chunks moved since it succeeded
  progressChan,  \* number of updates buffered in TransferManager.progressChan
  crowd,         \* SpecSlots: the callers, as a bag of caller states
  \* ---- analytics.Throttler
  thr,           \* the throttler's fields
  acq,           \* per caller of Acquire: the call in progress
  lastGrant,     \* the last Acquire call that returned
  \* ---- pure functions
  calc,          \* a function of the program applied to an argument
  \* ---- network.Discovery
  knownPeers,    \* Discovery.knownPeers: how old each tracked last-seen is
  discEvents,    \* Discovery.eventChan (FIFO)
  sweep,         \* removeStale holding d.mutex: the stale ids still to visit
  pings,         \* peers with a pingPeer goroutine in flight
  bcast,         \* broadcastEvents: the event it took and has yet to deliver
  subscribers,   \* Discovery.subscribers: the buffer of each channel
  published,     \* every event sent to Discovery.eventChan so far, in order
  received,      \* per subscriber: the events it has read, in order
  dops,          \* number of discovery operations started so far
  \* ---- models.FileIndex
  fileIndex,     \* FileIndex.files: the AcademicFile stored under each CID
  lastUpload,    \* what the last upload was given and the CID it answered
  iops,          \* number of index operations started so far
  \* ---- analytics.RatingService
  ratingChan,    \* RatingService.ratingChan (FIFO)
  ratingStore,   \* RatingStore: the ratings added, in the order of Add
  ratingStats,   \* totalFileRatings, totalPeerRatings and the two averages
  rproc,         \* processRatings: the rating in hand and where it stands
  rateAnswer,    \* the last RateFile / RatePeer call and what it returned
  rops,          \* number of rating calls started so far
  \* ---- shutdown
  closed,        \* the channels that have been closed
  panics,        \* the run-time panics raised so far: <<task, channel>>
  exited,        \* the consumer goroutines that have returned
  \* ---- analytics.ThrottlingManager
  throttlers,    \* ThrottlingManager.throttlers: the Throttler of each peer
  lastGet,       \* the last GetThrottler call and the Throttler it returned
  mops,          \* number of manager operations started so far
  \* ---- library.IntegrityService
  verifiedCache, \* IntegrityService.verifiedCache: CID -> cached result
  lastVerify,    \* the last VerifyAcademicFile call and what it returned
  vops,          \* number of integrity operations started so far
  \* ---- library.Indexer
  scan           \* one ScanDirectory call: its channels and goroutines

repVars == <<registry, score, uploads, downloads, isLeecher, idle24h, online,
            timeouts,
             eventChan, eventHistory, upd, decayTodo, files, downloadCount,
             req, ops, answer>>
xferVars == <<semaphore, transfers, task, disk, cancelInfo, progressChan,
              crowd>>
thrVars == <<thr, acq, lastGrant>>
discVars == <<knownPeers, discEvents, sweep, pings, bcast, subscribers,
              published, received, dops>>
idxVars == <<fileIndex, lastUpload, iops>>
rateVars == <<ratingChan, ratingStore, ratingStats, rproc, rateAnswer, rops>>
stopVars == <<closed, panics, exited>>
mgrVars == <<throttlers, lastGet, mops>>
cacheVars == <<verifiedCache, lastVerify, vops>>
lateVars == <<mgrVars, cacheVars, scan>>
tailVars == <<rateVars, stopVars, lateVars>>
auxVars == <<calc, discVars, idxVars, tailVars>>
vars == <<repVars, xferVars, thrVars, auxVars>>

-----------------------------------------------------------------------------
(* Bounds of the model *)

\* operations (requests, Record* calls, decay ticks) started in one run
MaxOps == 3
\* capacity of the reputation event queue in the model (100 in the source)
EventQueueCap == 2
\* events already applied to peer p1 before the run starts
PriorEvents == 10
\* largest upload / download counter SpecCalc draws
MaxCount == 3

Peers == {"p1", "p2"}
CIDs == {"c1", "c2"}
Handlers == {"h1", "h2"}
UpdTasks == {"consumer", "decay"}

-----------------------------------------------------------------------------
(* analytics/rating.go constants, in tenths of a reputation point *)

MinReputation == 0
MaxReputation == 100
DefaultReputation == 50
DownloadThreshold == 30
UploadBonus == 5
DownloadPenalty == 1
GoodRatingBonus == 3
BadRatingPenalty == 2
LeecherPenalty == 5
InactivityDecay == 1

\* rating scores a caller may pass to RecordRating (1.0 .. 5.0, in tenths),
\* with 2.1 and 3.9 next to the two thresholds
RatingScores == {10, 20, 21, 30, 39, 40, 50}

Event(type, peer, delta) == [type |-> type, peer |-> peer, delta |-> delta]

NoEvent == [type |-> "none", peer |-> "none", delta |-> 0]

\* n copies of e
RECURSIVE Repeat(_, _)
Repeat(e, n) == IF n = 0 THEN <<>> ELSE <<e>> \o Repeat(e, n - 1)

\* Student.UpdateReputation's clamp applied to a freshly stored sum
Clamp(v) == IF v > MaxReputation THEN MaxReputation
            ELSE IF v < 0 THEN 0 ELSE v

\* the score a run of applied events leaves, starting from s
RECURSIVE ScoreAfter(_, _)
ScoreAfter(s, evs) ==
  IF evs = <<>> THEN s
  ELSE ScoreAfter(Clamp(s + Head(evs).delta), Tail(evs))

\* the histories peer p1 may already have when the run starts: nothing,
\* PriorEvents uploads, or PriorEvents leeching penalties, all applied
PriorRuns ==
  { <<>>,
    Repeat(Event("UPLOAD", "p1", UploadBonus), PriorEvents),
    Repeat(Event("LEECHING", "p1", -LeecherPenalty), PriorEvents) }

-----------------------------------------------------------------------------
(* ReputationService.CalculateReputation and CanDownload *)

\* CalculateReputation with the two ratio bounds included (<= 0.5, >= 1.5)
CalculateReputationLax(s, u, d) ==
  LET base == IF d > 0
              THEN IF 2 * u <= d THEN s - 10
                   ELSE IF 2 * u >= 3 * d THEN s + 5
                   ELSE s
              ELSE s
  IN  IF base < MinReputation THEN MinReputation
      ELSE IF base > MaxReputation THEN MaxReputation
      ELSE base

\* uploads/downloads < 0.5 and > 1.5 on integers: 2u < d and 2u > 3d
CalculateReputation(s, u, d) ==
  LET base == IF d > 0
              THEN IF 2 * u < d THEN s - 10
                   ELSE IF 2 * u > 3 * d THEN s + 5
                   ELSE s
              ELSE s
  IN  IF base < MinReputation THEN MinReputation
      ELSE IF base > MaxReputation THEN MaxReputation
      ELSE base

\* CanDownload with the threshold itself excluded (score <= 3.0 denied)
CanDownloadLax(p) ==
  IF p \notin registry THEN [allow |-> FALSE, reason |-> "Student not found"]
  ELSE IF CalculateReputation(score[p], uploads[p], downloads[p])
            <= DownloadThreshold
       THEN [allow |-> FALSE, reason |-> "Insufficient reputation"]
       ELSE [allow |-> TRUE, reason |-> "Allowed"]

CanDownload(p) ==
  IF p \notin registry THEN [allow |-> FALSE, reason |-> "Student not found"]
  ELSE IF CalculateReputation(score[p], uploads[p], downloads[p])
            < DownloadThreshold
       THEN [allow |-> FALSE, reason |-> "Insufficient reputation"]
       ELSE [allow |-> TRUE, reason |-> "Allowed"]

\* Student.checkLeecherStatus: the flag after the recomputation
CheckLeecherStatus(u, d, old) ==
  IF d > 0 /\ u > 0 THEN d > 3 * u
  ELSE IF d > 5 /\ u = 0 THEN TRUE
  ELSE old


-----------------------------------------------------------------------------
(* The reputation engine: state after construction *)

IdleUpd == [pc |-> "idle", ev |-> NoEvent, tmp |-> 0, stale |-> FALSE]

IdleReq == [pc |-> "idle", cid |-> "", peer |-> "", tmp |-> 0,
            stale |-> FALSE, reply |-> "none"]

NoAnswer == [peer |-> "none", allow |-> FALSE, reason |-> "none"]

\* the transfer manager and the throttler, as the other specifications
\* leave them
XferIdle ==
  /\ semaphore = 0
  /\ transfers = <<>>
  /\ task = <<>>
  /\ disk = <<>>
  /\ cancelInfo = <<>>
  /\ progressChan = 0
  /\ crowd = <<>>

ThrIdle ==
  /\ thr = <<>>
  /\ acq = <<>>
  /\ lastGrant = <<>>

NoCalc == [op |-> "none", arg |-> 0, done |-> FALSE, out |-> 0]

CalcIdle == calc = NoCalc

\* NewDiscovery: nothing tracked, no subscriber, no task started
DiscIdle ==
  /\ knownPeers = [p \in Peers |-> "absent"]
  /\ discEvents = <<>>
  /\ sweep = [active |-> FALSE, stale |-> {}]
  /\ pings = {}
  /\ bcast = <<>>
  /\ subscribers = <<>>
  /\ published = <<>>
  /\ received = <<>>
  /\ dops = 0

\* NewFileIndex: no record under any CID
IdxIdle ==
  /\ fileIndex = <<>>
  /\ lastUpload = [content |-> <<>>, owner |-> "", cid |-> <<>>]
  /\ iops = 0

\* the parts no specification but their own touches
\* NewRatingService: nothing queued, nothing stored; no channel closed
NoRating == [rater |-> "", targetType |-> "none", target |-> "", score |-> 0]
NoRateAnswer == [call |-> NoRating, err |-> "none"]

\* NewThrottlingManager: no throttler
NoThrottler == [tier |-> "none"]
NoGet == [peer |-> "", reputation |-> 0, existed |-> FALSE, returned |-> 0]

\* NewIntegrityService: an empty cache; no ScanDirectory call
NoVerify == [cid |-> "", content |-> <<>>, result |-> FALSE]
NoScan == [pc |-> "none"]

LateIdle ==
  /\ throttlers = [p \in Peers |-> NoThrottler]
  /\ lastGet = NoGet
  /\ mops = 0
  /\ verifiedCache = <<>>
  /\ lastVerify = NoVerify
  /\ vops = 0
  /\ scan = NoScan

TailIdle ==
  /\ ratingChan = <<>>
  /\ ratingStore = <<>>
  /\ ratingStats = [files |-> 0, peers |-> 0, fileSum |-> 0, peerSum |-> 0]
  /\ rproc = [pc |-> "idle", rating |-> NoRating]
  /\ rateAnswer = NoRateAnswer
  /\ rops = 0
  /\ closed = {}
  /\ panics = {}
  /\ exited = {}
  /\ LateIdle

AuxIdle == CalcIdle /\ DiscIdle /\ IdxIdle /\ TailIdle

\* NewServer / NewPeerRegistry / NewReputationService, then HandleRegister
\* of p1 and one of the PriorRuns applied to it, every task idle
Init ==
  /\ \E prior \in PriorRuns :
       /\ eventHistory = prior
       /\ score = [p \in Peers |->
                     IF p = "p1" THEN ScoreAfter(DefaultReputation, prior)
                     ELSE 0]
       /\ files = IF prior # <<>> /\ prior[1].type = "UPLOAD"
                  THEN {"c1"} ELSE {}
  /\ registry = {"p1"}
  /\ online = [p \in Peers |-> p = "p1"]
  /\ timeouts = [p \in Peers |-> 0]
  /\ uploads = [p \in Peers |-> 0]
  /\ downloads = [p \in Peers |-> 0]
  /\ isLeecher = [p \in Peers |-> FALSE]
  /\ idle24h = {}
  /\ eventChan = <<>>
  /\ upd = [t \in UpdTasks |-> IdleUpd]
  /\ decayTodo = {}
  /\ downloadCount = [c \in CIDs |-> 0]
  /\ req = [h \in Handlers |-> IdleReq]
  /\ ops = 0
  /\ answer = NoAnswer
  /\ XferIdle
  /\ ThrIdle
  /\ AuxIdle

regFrame == UNCHANGED <<registry, uploads, downloads, idle24h, online, timeouts>>
otherFrame == UNCHANGED <<answer, xferVars, thrVars, auxVars>>

-----------------------------------------------------------------------------
(* Event submission: RecordUpload, RecordDownload, RecordRating,           *)
(* RecordLeeching.  A send on the full queue blocks the caller.            *)

Enqueue(e) ==
  /\ Len(eventChan) < EventQueueCap
  /\ eventChan' = Append(eventChan, e)

\* RecordRating's choice of delta with the two thresholds themselves neutral
RatingDeltaStrict(ratingScore) ==
  IF ratingScore > 40 THEN GoodRatingBonus
  ELSE IF ratingScore < 20 THEN -BadRatingPenalty
  ELSE 0

\* RecordRating's choice of delta; 0 stands for the early return
RatingDelta(ratingScore) ==
  IF ratingScore >= 40 THEN GoodRatingBonus
  ELSE IF ratingScore <= 20 THEN -BadRatingPenalty
  ELSE 0

RecordRating(p, ratingScore) ==
  /\ ops < MaxOps
  /\ ops' = ops + 1
  /\ IF RatingDelta(ratingScore) = 0
     THEN UNCHANGED eventChan
     ELSE Enqueue(Event("RATING", p, RatingDelta(ratingScore)))
  /\ UNCHANGED <<score, isLeecher, eventHistory, upd, decayTodo, files,
                 downloadCount, req>>
  /\ regFrame /\ otherFrame

RecordLeeching(p) ==
  /\ ops < MaxOps
  /\ ops' = ops + 1
  /\ Enqueue(Event("LEECHING", p, -LeecherPenalty))
  /\ UNCHANGED <<score, isLeecher, eventHistory, upd, decayTodo, files,
                 downloadCount, req>>
  /\ regFrame /\ otherFrame

-----------------------------------------------------------------------------
(* applyEvent / Student.UpdateReputation, run by the event consumer and by *)
(* the decay task.  Neither holds a lock on the Student, so the statements *)
(* of UpdateReputation are separate steps:                                 *)
(*   Begin   peerRegistry.Get and the load of ReputationScore              *)
(*   Store   s.ReputationScore = loaded + delta             (line 130)     *)
(*   Settle  the range check, the clamping store, checkLeecherStatus       *)
(*   Log     the append to eventHistory under rs.mutex                     *)
(* A task whose Student was replaced in the registry (HandleRegister with  *)
(* the same id) keeps writing to the replaced object: stale.               *)

BeginApply(t, e) ==
  IF e.peer \in registry
  THEN upd' = [upd EXCEPT ![t] = [pc |-> "store", ev |-> e,
                                  tmp |-> score[e.peer], stale |-> FALSE]]
  ELSE UNCHANGED upd

\* a consumer that takes the newest queued event instead of the oldest
ConsumerReceiveNewest ==
  /\ upd["consumer"].pc = "idle"
  /\ eventChan # <<>>
  /\ eventChan' = SubSeq(eventChan, 1, Len(eventChan) - 1)
  /\ BeginApply("consumer", eventChan[Len(eventChan)])
  /\ UNCHANGED <<score, isLeecher, eventHistory, decayTodo, files,
                 downloadCount, req, ops>>
  /\ regFrame /\ otherFrame

\* processEvents: one receive from the queue, and the peer lookup of
\* applyEvent
ConsumerReceive ==
  /\ upd["consumer"].pc = "idle"
  /\ eventChan # <<>>
  /\ eventChan' = Tail(eventChan)
  /\ BeginApply("consumer", Head(eventChan))
  /\ UNCHANGED <<score, isLeecher, eventHistory, decayTodo, files,
                 downloadCount, req, ops>>
  /\ regFrame /\ otherFrame

Store(t) ==
  /\ upd[t].pc = "store"
  /\ score' = IF upd[t].stale THEN score
              ELSE [score EXCEPT ![upd[t].ev.peer] = upd[t].tmp + upd[t].ev.delta]
  /\ upd' = [upd EXCEPT ![t].pc = "settle", ![t].tmp = upd[t].tmp + upd[t].ev.delta]
  /\ UNCHANGED <<isLeecher, eventChan, eventHistory, decayTodo, files,
                 downloadCount, req, ops>>
  /\ regFrame /\ otherFrame

\* the value the range check sees: the sum this task stored (kept in a
\* register) or the field as it is now (reloaded); both builds exist
Settle(t) ==
  /\ upd[t].pc = "settle"
  /\ LET p == upd[t].ev.peer IN
       /\ \E seen \in {upd[t].tmp, score[p]} :
            score' = IF upd[t].stale \/ seen \in MinReputation..MaxReputation
                     THEN score
                     ELSE [score EXCEPT ![p] = Clamp(seen)]
       /\ isLeecher' = IF upd[t].stale THEN isLeecher
                       ELSE [isLeecher EXCEPT ![p] =
                               CheckLeecherStatus(uploads[p], downloads[p], @)]
  /\ upd' = [upd EXCEPT ![t].pc = "log"]
  /\ UNCHANGED <<eventChan, eventHistory, decayTodo, files, downloadCount,
                 req, ops>>
  /\ regFrame /\ otherFrame

Log(t) ==
  /\ upd[t].pc = "log"
  /\ eventHistory' = Append(eventHistory, upd[t].ev)
  /\ upd' = [upd EXCEPT ![t] = IdleUpd]
  /\ UNCHANGED <<score, isLeecher, eventChan, decayTodo, files,
                 downloadCount, req, ops>>
  /\ regFrame /\ otherFrame

-----------------------------------------------------------------------------
(* checkInactivityDecay / applyInactivityDecay *)

\* the ticker fires: GetAllPeers snapshots the registered Students
DecayTick ==
  /\ upd["decay"].pc = "idle"
  /\ decayTodo = {}
  /\ registry # {}
  /\ ops < MaxOps
  /\ ops' = ops + 1
  /\ decayTodo' = {[peer |-> p, orphan |-> "no"] : p \in registry}
  /\ UNCHANGED <<score, isLeecher, eventChan, eventHistory, upd, files,
                 downloadCount, req>>
  /\ regFrame /\ otherFrame

\* one iteration of the loop: time.Since(peer.LastSeen) > 24h on the
\* snapshot's Student, then applyEvent by id
DecayVisit ==
  /\ upd["decay"].pc = "idle"
  /\ \E d \in decayTodo :
       /\ decayTodo' = decayTodo \ {d}
       /\ \E inactive \in
              (CASE d.orphan = "no" -> {d.peer \in idle24h}
                 [] d.orphan = "idle" -> {TRUE}
                 [] d.orphan = "fresh" -> {FALSE}
                 [] OTHER -> BOOLEAN) :
            IF inactive
            THEN BeginApply("decay", Event("INACTIVITY", d.peer, -InactivityDecay))
            ELSE UNCHANGED upd
  /\ UNCHANGED <<score, isLeecher, eventChan, eventHistory, files,
                 downloadCount, req, ops>>
  /\ regFrame /\ otherFrame

\* 24 hours pass without p's LastSeen being refreshed
TimePasses(p) ==
  /\ p \in registry
  /\ p \notin idle24h
  /\ idle24h' = idle24h \cup {p}
  /\ decayTodo' = {IF d.orphan = "fresh" THEN [d EXCEPT !.orphan = "any"] ELSE d
                     : d \in decayTodo}
  /\ UNCHANGED <<registry, uploads, downloads, score, isLeecher, eventChan,
                 eventHistory, upd, files, downloadCount, req, ops, online,
                 timeouts>>
  /\ otherFrame

-----------------------------------------------------------------------------
(* Server.HandleRegister: NewStudent + PeerRegistry.Register.  The id is a  *)
(* function of (name, ip, port), so registering the same peer again        *)
(* replaces its Student by a new one.                                      *)

HandleRegister(p) ==
  /\ ops < MaxOps
  /\ ops' = ops + 1
  /\ registry' = registry \cup {p}
  /\ score' = [score EXCEPT ![p] = DefaultReputation]
  /\ uploads' = [uploads EXCEPT ![p] = 0]
  /\ downloads' = [downloads EXCEPT ![p] = 0]
  /\ isLeecher' = [isLeecher EXCEPT ![p] = FALSE]
  /\ idle24h' = idle24h \ {p}
  /\ online' = [online EXCEPT ![p] = TRUE]
  /\ timeouts' = [timeouts EXCEPT ![p] = 0]
  /\ upd' = [t \in UpdTasks |->
               IF upd[t].pc # "idle" /\ upd[t].ev.peer = p
               THEN [upd[t] EXCEPT !.stale = TRUE] ELSE upd[t]]
  /\ decayTodo' = {IF d.peer = p /\ d.orphan = "no"
                   THEN [d EXCEPT !.orphan =
                           IF p \in idle24h THEN "idle" ELSE "fresh"]
                   ELSE d : d \in decayTodo}
  /\ UNCHANGED <<eventChan, eventHistory, files, downloadCount, req>>
  /\ otherFrame

-----------------------------------------------------------------------------
(* Router.downloadHandler.  net/http serves every request on a goroutine   *)
(* of its own; the handler takes no lock of its own, so its statements     *)
(* interleave with those of the other handlers and tasks:                  *)
(*   StartDownload  the query parameters are read (400 when one is empty)  *)
(*   DlGate         ReputationService.CanDownload (403 on deny)            *)
(*   DlGet          FileIndex.Get (404 when missing)                       *)
(*   DlRecord       ReputationService.RecordDownload: the queue send       *)
(*   DlLoad         file.RecordDownload: the load of DownloadCount         *)
(*   DlStore        the store of DownloadCount + 1, then the 200 reply     *)

ReqCIDs == CIDs \cup {""}
ReqPeers == Peers \cup {""}

reqFrame == UNCHANGED <<score, isLeecher, eventHistory, upd, decayTodo>>

Reply(h, code) == [req EXCEPT ![h] = [IdleReq EXCEPT !.reply = code]]

StartDownload(h, c, p) ==
  /\ req[h].pc = "idle"
  /\ ops < MaxOps
  /\ ops' = ops + 1
  /\ req' = [req EXCEPT ![h] =
               IF c = "" \/ p = ""
               THEN [IdleReq EXCEPT !.reply = "400"]
               ELSE [IdleReq EXCEPT !.pc = "dl_gate", !.cid = c, !.peer = p]]
  /\ UNCHANGED <<eventChan, files, downloadCount>>
  /\ reqFrame /\ regFrame /\ otherFrame

DlGate(h) ==
  /\ req[h].pc = "dl_gate"
  /\ req' = IF CanDownload(req[h].peer).allow
            THEN [req EXCEPT ![h].pc = "dl_get"]
            ELSE Reply(h, "403")
  /\ UNCHANGED <<eventChan, files, downloadCount, ops>>
  /\ reqFrame /\ regFrame /\ otherFrame

DlGet(h) ==
  /\ req[h].pc = "dl_get"
  /\ req' = IF req[h].cid \in files
            THEN [req EXCEPT ![h].pc = "dl_record"]
            ELSE Reply(h, "404")
  /\ UNCHANGED <<eventChan, files, downloadCount, ops>>
  /\ reqFrame /\ regFrame /\ otherFrame

DlRecord(h) ==
  /\ req[h].pc = "dl_record"
  /\ Enqueue(Event("DOWNLOAD", req[h].peer, -DownloadPenalty))
  /\ req' = [req EXCEPT ![h].pc = "dl_load"]
  /\ UNCHANGED <<files, downloadCount, ops>>
  /\ reqFrame /\ regFrame /\ otherFrame

DlLoad(h) ==
  /\ req[h].pc = "dl_load"
  /\ req' = [req EXCEPT ![h].pc = "dl_store", ![h].tmp = downloadCount[req[h].cid]]
  /\ UNCHANGED <<eventChan, files, downloadCount, ops>>
  /\ reqFrame /\ regFrame /\ otherFrame

DlStore(h) ==
  /\ req[h].pc = "dl_store"
  /\ downloadCount' = IF req[h].stale THEN downloadCount
                      ELSE [downloadCount EXCEPT ![req[h].cid] = req[h].tmp + 1]
  /\ req' = Reply(h, "200")
  /\ UNCHANGED <<eventChan, files, ops>>
  /\ reqFrame /\ regFrame /\ otherFrame

-----------------------------------------------------------------------------
(* Router.uploadHandler: NewAcademicFile, FileIndex.Add (the record of the *)
(* CID is replaced by a new one, DownloadCount 0), then RecordUpload.      *)

StartUpload(h, c, p) ==
  /\ req[h].pc = "idle"
  /\ ops < MaxOps
  /\ ops' = ops + 1
  /\ req' = [req EXCEPT ![h] =
               IF p = ""
               THEN [IdleReq EXCEPT !.reply = "400"]
               ELSE [IdleReq EXCEPT !.pc = "up_add", !.cid = c, !.peer = p]]
  /\ UNCHANGED <<eventChan, files, downloadCount>>
  /\ reqFrame /\ regFrame /\ otherFrame

UpAdd(h) ==
  /\ req[h].pc = "up_add"
  /\ files' = files \cup {req[h].cid}
  /\ downloadCount' = [downloadCount EXCEPT ![req[h].cid] = 0]
  /\ req' = [g \in Handlers |->
               IF g = h THEN [req[h] EXCEPT !.pc = "up_record"]
               ELSE IF req[g].pc \in {"dl_record", "dl_load", "dl_store"}
                       /\ req[g].cid = req[h].cid
                    THEN [req[g] EXCEPT !.stale = TRUE]
                    ELSE req[g]]
  /\ UNCHANGED <<eventChan, ops>>
  /\ reqFrame /\ regFrame /\ otherFrame

UpRecord(h) ==
  /\ req[h].pc = "up_record"
  /\ Enqueue(Event("UPLOAD", req[h].peer, UploadBonus))
  /\ req' = Reply(h, "201")
  /\ UNCHANGED <<files, downloadCount, ops>>
  /\ reqFrame /\ regFrame /\ otherFrame

-----------------------------------------------------------------------------
Next ==
  \/ \E p \in Peers, r \in RatingScores : RecordRating(p, r)
  \/ \E p \in Peers : RecordLeeching(p)
  \/ ConsumerReceive
  \/ \E t \in UpdTasks : Store(t)
  \/ \E t \in UpdTasks : Settle(t)
  \/ \E t \in UpdTasks : Log(t)
  \/ DecayTick
  \/ DecayVisit
  \/ \E p \in Peers : TimePasses(p)
  \/ \E p \in Peers : HandleRegister(p)
  \/ \E h \in Handlers, c \in ReqCIDs, p \in ReqPeers : StartDownload(h, c, p)
  \/ \E h \in Handlers : DlGate(h)
  \/ \E h \in Handlers : DlGet(h)
  \/ \E h \in Handlers : DlRecord(h)
  \/ \E h \in Handlers : DlLoad(h)
  \/ \E h \in Handlers : DlStore(h)
  \/ \E h \in Handlers, c \in CIDs, p \in ReqPeers : StartUpload(h, c, p)
  \/ \E h \in Handlers : UpAdd(h)
  \/ \E h \in Handlers : UpRecord(h)

Spec == Init /\ [][Next]_vars

-----------------------------------------------------------------------------
(* SpecCalc: CanDownload applied to a peer with any stored score and any   *)
(* upload / download counters                                              *)

InitCalc ==
  /\ \E s \in MinReputation..MaxReputation, u \in 0..MaxCount,
        d \in 0..MaxCount, reg \in SUBSET Peers :
       /\ registry = reg
       /\ online = [p \in Peers |-> p \in reg]
       /\ timeouts = [p \in Peers |-> 0]
       /\ score = [p \in Peers |-> IF p = "p1" THEN s ELSE DefaultReputation]
       /\ uploads = [p \in Peers |-> IF p = "p1" THEN u ELSE 0]
       /\ downloads = [p \in Peers |-> IF p = "p1" THEN d ELSE 0]
  /\ isLeecher = [p \in Peers |-> FALSE]
  /\ idle24h = {}
  /\ eventChan = <<>>
  /\ eventHistory = <<>>
  /\ upd = [t \in UpdTasks |-> IdleUpd]
  /\ decayTodo = {}
  /\ files = {}
  /\ downloadCount = [c \in CIDs |-> 0]
  /\ req = [h \in Handlers |-> IdleReq]
  /\ ops = 0
  /\ answer = NoAnswer
  /\ XferIdle
  /\ ThrIdle
  /\ AuxIdle

CallCanDownload(p) ==
  /\ answer' = [peer |-> p, allow |-> CanDownload(p).allow,
                reason |-> CanDownload(p).reason]
  /\ UNCHANGED <<registry, score, uploads, downloads, isLeecher, idle24h,
                 online, timeouts, eventChan, eventHistory, upd, decayTodo,
                 files,
                 downloadCount, req, ops, xferVars, thrVars, auxVars>>

NextCalc == \E p \in Peers : CallCanDownload(p)

SpecCalc == InitCalc /\ [][NextCalc]_vars

-----------------------------------------------------------------------------
(* Claims about the reputation engine and the download gate *)

\* C1: in every reachable state the stored score of every registered peer
\* lies in [0,10] (0..100 tenths).
C1_ScoreInRange ==
  \A p \in registry : score[p] >= 0 /\ score[p] <= 100

\* the effective reputation of the peer the last CanDownload call was about
AnswerEffective ==
  CalculateReputation(score[answer.peer], uploads[answer.peer],
                      downloads[answer.peer])

Leaves(h, pc) == req[h].pc = pc /\ req'[h].pc # pc

\* C3: a download request made while the requester's effective reputation
\* is below 3.0 is denied and changes no state; one for a CID missing from
\* the index is answered not-found and changes no state; an accepted one
\* enqueues exactly one DOWNLOAD event for the requester and increases the
\* download count of the file by exactly one.
C3_DownloadRequest ==
  [][\A h \in Handlers :
       /\ Leaves(h, "dl_gate") =>
            LET p == req[h].peer
                low == p \in registry /\
                       CalculateReputation(score[p], uploads[p], downloads[p]) < 30
            IN  /\ low => req'[h].reply = "403"
                /\ req'[h].reply = "403" =>
                     UNCHANGED <<eventChan, downloadCount, score, eventHistory>>
                /\ UNCHANGED <<eventChan, downloadCount>>
       /\ Leaves(h, "dl_get") =>
            /\ req[h].cid \notin files => req'[h].reply = "404"
            /\ UNCHANGED <<eventChan, downloadCount, score, eventHistory>>
       /\ Leaves(h, "dl_record") =>
            /\ eventChan' = Append(eventChan,
                                   Event("DOWNLOAD", req[h].peer, -1))
            /\ UNCHANGED downloadCount
       /\ Leaves(h, "dl_load") => UNCHANGED <<eventChan, downloadCount>>
       /\ (Leaves(h, "dl_store") /\ ~req[h].stale) =>
            /\ req'[h].reply = "200"
            /\ downloadCount'[req[h].cid] = downloadCount[req[h].cid] + 1
            /\ UNCHANGED eventChan
    ]_vars

-----------------------------------------------------------------------------
(* library.TransferManager: Download, HandleUploadRequest, CancelTransfer   *)
(* (backend/library/transfer.go).  A transfer id is the hash of the CID and *)
(* the nanosecond clock; the model names a transfer by the call that made   *)
(* it.  Sizes are counted in bytes of a two-letter alphabet.                *)

\* largest file size a peer announces / the index records
MaxFileSize == 2
\* largest size of a served file on disk
MaxDiskSize == 3
\* bytes one Read fills at most (32 KiB in the source)
TransferBufferSize == 2
\* capacity of the progress channel in the model (100 in the source)
ProgressCap == 2
\* CancelTransfer calls per transfer id in one run
MaxCancels == 1
\* capacity of TransferManager.semaphore
MaxConcurrentTransfers == 5

Callers == {"t1"}
Bytes == {0, 1}

\* all byte strings of length n
Contents(n) == [1..n -> Bytes]

\* what one conn.Read can deliver
Chunks == UNION {Contents(n) : n \in 1..TransferBufferSize}

\* utils.HashFile / HashBytes: the digest of a byte string; like SHA-256 on
\* the strings of the model it is injective, and it is not the identity
RECURSIVE HashBytes(_)
HashBytes(s) ==
  IF s = <<>> THEN 7
  ELSE (3 * HashBytes(SubSeq(s, 1, Len(s) - 1)) + s[Len(s)] + 1)

Min(a, b) == IF a < b THEN a ELSE b

IdleTask == [pc |-> "idle", kind |-> "none", fileSize |-> 0, checksum |-> 0,
             received |-> 0, left |-> 0, err |-> FALSE, verdict |-> "none"]

NoTransfer == [status |-> "none", direction |-> "none", total |-> 0,
               sent |-> 0]

NoFile == [exists |-> FALSE, data |-> <<>>]

NoCancel == [calls |-> 0, result |-> "none", moved |-> 0]

TerminalStatus == {"completed", "failed", "cancelled"}

\* the reputation engine, as the transfer and throttler specifications
\* leave it
RepIdle ==
  /\ registry = {}
  /\ online = [p \in Peers |-> FALSE]
  /\ timeouts = [p \in Peers |-> 0]
  /\ score = [p \in Peers |-> DefaultReputation]
  /\ uploads = [p \in Peers |-> 0]
  /\ downloads = [p \in Peers |-> 0]
  /\ isLeecher = [p \in Peers |-> FALSE]
  /\ idle24h = {}
  /\ eventChan = <<>>
  /\ eventHistory = <<>>
  /\ upd = [t \in UpdTasks |-> IdleUpd]
  /\ decayTodo = {}
  /\ files = {}
  /\ downloadCount = [c \in CIDs |-> 0]
  /\ req = [h \in Handlers |-> IdleReq]
  /\ ops = 0
  /\ answer = NoAnswer

\* NewTransferManager: no transfers, every slot free, no caller running
InitTransfer ==
  /\ RepIdle
  /\ ThrIdle
  /\ AuxIdle
  /\ semaphore = 0
  /\ transfers = [t \in Callers |-> NoTransfer]
  /\ task = [t \in Callers |-> IdleTask]
  /\ disk = [t \in Callers |-> NoFile]
  /\ cancelInfo = [t \in Callers |-> NoCancel]
  /\ progressChan = 0
  /\ crowd = <<>>

xferFrame == UNCHANGED <<repVars, thrVars, crowd, auxVars>>

\* a semaphore that admits one caller more than its capacity
SlotFreeLax(held) == held <= MaxConcurrentTransfers

\* tm.semaphore <- struct{}{} succeeds while a slot is free
SlotFree(held) == held < MaxConcurrentTransfers

\* a chunk moved by the streaming loop of t, counted once CancelTransfer
\* has succeeded on t
CountMoved(t) ==
  IF cancelInfo[t].result = "ok"
  THEN [cancelInfo EXCEPT ![t].moved = @ + 1]
  ELSE cancelInfo

\* Download: the slot is taken first
Download(t) ==
  /\ task[t].pc = "idle"
  /\ SlotFree(semaphore)
  /\ semaphore' = semaphore + 1
  /\ task' = [task EXCEPT ![t].pc = "connect", ![t].kind = "download"]
  /\ UNCHANGED <<transfers, disk, cancelInfo, progressChan>>
  /\ xferFrame

\* Download: connect, send the request, read the response; on acceptance the
\* Transfer record is created active with the announced size
RecvConnect(t) ==
  /\ task[t].pc = "connect"
  /\ \/ /\ task' = [task EXCEPT ![t].pc = "release", ![t].err = TRUE]
        /\ UNCHANGED transfers
     \/ \E size \in 0..MaxFileSize : \E c \in Contents(size) :
          /\ transfers' = [transfers EXCEPT ![t] =
                             [status |-> "active", direction |-> "download",
                              total |-> size, sent |-> 0]]
          /\ task' = [task EXCEPT ![t].pc = "create", ![t].fileSize = size,
                                  ![t].checksum = HashBytes(c)]
  /\ UNCHANGED <<semaphore, disk, cancelInfo, progressChan>>
  /\ xferFrame

\* receiveFile: os.Create of the output file
RecvCreate(t) ==
  /\ task[t].pc = "create"
  /\ \/ /\ task' = [task EXCEPT ![t].pc = "complete", ![t].err = TRUE]
        /\ UNCHANGED disk
     \/ /\ disk' = [disk EXCEPT ![t] = [exists |-> TRUE, data |-> <<>>]]
        /\ task' = [task EXCEPT ![t].pc =
                      IF 0 < task[t].fileSize THEN "recv" ELSE "verify"]
  /\ UNCHANGED <<semaphore, transfers, cancelInfo, progressChan>>
  /\ xferFrame

\* receiveFile: one pass of the receive loop up to the progress update
RecvChunk(t) ==
  /\ task[t].pc = "recv"
  /\ \/ /\ task' = [task EXCEPT ![t].pc = "verify"]          \* io.EOF
        /\ UNCHANGED <<transfers, disk, cancelInfo>>
     \/ /\ transfers' = [transfers EXCEPT ![t].status = "failed"]
        /\ task' = [task EXCEPT ![t].pc = "complete", ![t].err = TRUE]
        /\ UNCHANGED <<disk, cancelInfo>>         \* Read or Write failed
     \/ \E chunk \in Chunks :
          LET got == task[t].received + Len(chunk)
          IN  /\ disk' = [disk EXCEPT ![t].data = @ \o chunk]
              /\ transfers' = [transfers EXCEPT ![t].sent = got]
              /\ task' = [task EXCEPT ![t].pc = "recv_notify",
                                      ![t].received = got]
              /\ cancelInfo' = CountMoved(t)
  /\ UNCHANGED <<semaphore, progressChan>>
  /\ xferFrame

\* receiveFile: tm.progressChan <- update, then the loop condition
RecvNotify(t) ==
  /\ task[t].pc = "recv_notify"
  /\ progressChan < ProgressCap
  /\ progressChan' = progressChan + 1
  /\ task' = [task EXCEPT ![t].pc =
                IF task[t].received < task[t].fileSize THEN "recv"
                ELSE "verify"]
  /\ UNCHANGED <<semaphore, transfers, disk, cancelInfo>>
  /\ xferFrame

\* receiveFile: HashFile of the output file and the comparison
RecvVerify(t) ==
  /\ task[t].pc = "verify"
  /\ \/ /\ task' = [task EXCEPT ![t].pc = "complete", ![t].err = TRUE]
        /\ UNCHANGED <<transfers, disk>>              \* HashFile failed
     \/ /\ HashBytes(disk[t].data) # task[t].checksum
        /\ disk' = [disk EXCEPT ![t] = NoFile]
        /\ transfers' = [transfers EXCEPT ![t].status = "failed"]
        /\ task' = [task EXCEPT ![t].pc = "complete", ![t].err = TRUE,
                                ![t].verdict = "mismatch"]
     \/ /\ HashBytes(disk[t].data) = task[t].checksum
        /\ transfers' = [transfers EXCEPT ![t].status = "completed"]
        /\ task' = [task EXCEPT ![t].pc = "complete",
                                ![t].verdict = "match"]
        /\ UNCHANGED disk
  /\ UNCHANGED <<semaphore, cancelInfo, progressChan>>
  /\ xferFrame

\* HandleUploadRequest: the slot is taken first
HandleUploadRequest(t) ==
  /\ task[t].pc = "idle"
  /\ SlotFree(semaphore)
  /\ semaphore' = semaphore + 1
  /\ task' = [task EXCEPT ![t].pc = "lookup", ![t].kind = "upload"]
  /\ UNCHANGED <<transfers, disk, cancelInfo, progressChan>>
  /\ xferFrame

\* HandleUploadRequest: GetFile and GetLocalFilePath; a miss is answered
\* with a rejection and no record; a hit creates the record active with
\* the indexed size
ServeLookup(t) ==
  /\ task[t].pc = "lookup"
  /\ \/ \E sendFailed \in BOOLEAN :
          /\ task' = [task EXCEPT ![t].pc = "release", ![t].err = sendFailed]
          /\ UNCHANGED transfers
     \/ \E size \in 0..MaxFileSize :
          /\ transfers' = [transfers EXCEPT ![t] =
                             [status |-> "active", direction |-> "upload",
                              total |-> size, sent |-> 0]]
          /\ task' = [task EXCEPT ![t].pc = "accept", ![t].fileSize = size]
  /\ UNCHANGED <<semaphore, disk, cancelInfo, progressChan>>
  /\ xferFrame

\* HandleUploadRequest: sendResponse of the acceptance
ServeAccept(t) ==
  /\ task[t].pc = "accept"
  /\ \/ /\ transfers' = [transfers EXCEPT ![t].status = "failed"]
        /\ task' = [task EXCEPT ![t].pc = "complete", ![t].err = TRUE]
     \/ /\ task' = [task EXCEPT ![t].pc = "open"]
        /\ UNCHANGED transfers
  /\ UNCHANGED <<semaphore, disk, cancelInfo, progressChan>>
  /\ xferFrame

\* streamFile: os.Open of the served file, whose size on disk need not be
\* the indexed size
ServeOpen(t) ==
  /\ task[t].pc = "open"
  /\ \/ task' = [task EXCEPT ![t].pc = "complete", ![t].err = TRUE]
     \/ \E len \in 0..MaxDiskSize :
          task' = [task EXCEPT ![t].pc = "send", ![t].left = len]
  /\ UNCHANGED <<semaphore, transfers, disk, cancelInfo, progressChan>>
  /\ xferFrame

\* streamFile: one pass of the loop up to the progress update, or the end
\* of file and the writes that follow the loop
ServeChunk(t) ==
  /\ task[t].pc = "send"
  /\ IF task[t].left = 0
     THEN /\ transfers' = [transfers EXCEPT ![t].status = "completed"]
          /\ task' = [task EXCEPT ![t].pc = "complete"]
          /\ UNCHANGED cancelInfo
     ELSE \/ /\ transfers' = [transfers EXCEPT ![t].status = "failed"]
             /\ task' = [task EXCEPT ![t].pc = "complete", ![t].err = TRUE]
             /\ UNCHANGED cancelInfo              \* Read or Write failed
          \/ \E n \in 1..Min(task[t].left, TransferBufferSize) :
               /\ transfers' = [transfers EXCEPT ![t].sent = @ + n]
               /\ task' = [task EXCEPT ![t].pc = "send_notify",
                                       ![t].left = @ - n]
               /\ cancelInfo' = CountMoved(t)
  /\ UNCHANGED <<semaphore, disk, progressChan>>
  /\ xferFrame

\* streamFile: tm.progressChan <- update
ServeNotify(t) ==
  /\ task[t].pc = "send_notify"
  /\ progressChan < ProgressCap
  /\ progressChan' = progressChan + 1
  /\ task' = [task EXCEPT ![t].pc = "send"]
  /\ UNCHANGED <<semaphore, transfers, disk, cancelInfo>>
  /\ xferFrame

\* the deferred completeTransfer: an active record becomes completed
completeTransfer(t) ==
  /\ task[t].pc = "complete"
  /\ transfers' = [transfers EXCEPT ![t].status =
                     IF @ = "active" THEN "completed" ELSE @]
  /\ task' = [task EXCEPT ![t].pc = "release"]
  /\ UNCHANGED <<semaphore, disk, cancelInfo, progressChan>>
  /\ xferFrame

\* the deferred <-tm.semaphore, and the return
ReleaseSlot(t) ==
  /\ task[t].pc = "release"
  /\ semaphore' = semaphore - 1
  /\ task' = [task EXCEPT ![t].pc = "done"]
  /\ UNCHANGED <<transfers, disk, cancelInfo, progressChan>>
  /\ xferFrame

\* CancelTransfer(id), under tm.mutex
CancelTransfer(t) ==
  /\ cancelInfo[t].calls < MaxCancels
  /\ IF transfers[t].status = "none"
     THEN /\ cancelInfo' = [cancelInfo EXCEPT ![t].calls = @ + 1,
                                              ![t].result = "not found"]
          /\ UNCHANGED transfers
     ELSE IF transfers[t].status # "active"
     THEN /\ cancelInfo' = [cancelInfo EXCEPT ![t].calls = @ + 1,
                                              ![t].result = "not active"]
          /\ UNCHANGED transfers
     ELSE /\ transfers' = [transfers EXCEPT ![t].status = "cancelled"]
          /\ cancelInfo' = [cancelInfo EXCEPT ![t].calls = @ + 1,
                                              ![t].result = "ok"]
  /\ UNCHANGED <<semaphore, task, disk, progressChan>>
  /\ xferFrame

\* a reader of GetProgressChannel takes one update
ReadProgress ==
  /\ progressChan > 0
  /\ progressChan' = progressChan - 1
  /\ UNCHANGED <<semaphore, transfers, task, disk, cancelInfo>>
  /\ xferFrame

NextTransfer ==
  \/ \E t \in Callers : Download(t)
  \/ \E t \in Callers : RecvConnect(t)
  \/ \E t \in Callers : RecvCreate(t)
  \/ \E t \in Callers : RecvChunk(t)
  \/ \E t \in Callers : RecvNotify(t)
  \/ \E t \in Callers : RecvVerify(t)
  \/ \E t \in Callers : HandleUploadRequest(t)
  \/ \E t \in Callers : ServeLookup(t)
  \/ \E t \in Callers : ServeAccept(t)
  \/ \E t \in Callers : ServeOpen(t)
  \/ \E t \in Callers : ServeChunk(t)
  \/ \E t \in Callers : ServeNotify(t)
  \/ \E t \in Callers : completeTransfer(t)
  \/ \E t \in Callers : ReleaseSlot(t)
  \/ \E t \in Callers : CancelTransfer(t)
  \/ ReadProgress

SpecTransfer == InitTransfer /\ [][NextTransfer]_vars

-----------------------------------------------------------------------------
(* Claims about the transfer manager *)

\* C4: once the status of a Transfer record is completed, failed or
\* cancelled, no later step changes it.
C4_TerminalIsFinal ==
  [][\A t \in Callers :
       transfers[t].status \in TerminalStatus =>
         transfers'[t].status = transfers[t].status]_vars

\* C5: a download that has returned is completed only if the digest of the
\* bytes in the output file equals the announced checksum; when the digests
\* were compared and differ, it is failed and the output file is removed.
C5_CompletedOnlyIfDigestMatches ==
  \A t \in Callers :
    (task[t].kind = "download" /\ task[t].pc = "done") =>
      /\ transfers[t].status = "completed" =>
           /\ disk[t].exists
           /\ HashBytes(disk[t].data) = task[t].checksum
      /\ task[t].verdict = "mismatch" =>
           /\ transfers[t].status = "failed"
           /\ ~disk[t].exists

\* C7: every Transfer record has sent_bytes <= total_bytes.
C7_SentAtMostTotal ==
  \A t \in Callers : transfers[t].sent <= transfers[t].total

\* C8: CancelTransfer on an active transfer sets it cancelled, and after it
\* the streaming loop moves at most one more chunk; on a transfer that is
\* not active, or an unknown id, it is rejected and changes no record.
C8_CancelHaltsBytes ==
  /\ [](\A t \in Callers :
          cancelInfo[t].result = "ok" => cancelInfo[t].moved <= 1)
  /\ [][\A t \in Callers :
          cancelInfo'[t].calls # cancelInfo[t].calls =>
            IF transfers[t].status = "active"
            THEN /\ cancelInfo'[t].result = "ok"
                 /\ transfers'[t].status = "cancelled"
            ELSE /\ cancelInfo'[t].result \in {"not found", "not active"}
                 /\ UNCHANGED transfers]_vars

\* C9: when Download or HandleUploadRequest has returned an error after
\* creating its Transfer record, the record is never completed, and it is
\* failed unless a cancellation was accepted before.
C9_ErrorMeansFailed ==
  \A t \in Callers :
    (task[t].pc = "done" /\ task[t].err /\ transfers[t].status # "none") =>
      /\ transfers[t].status # "completed"
      /\ cancelInfo[t].result # "ok" => transfers[t].status = "failed"

-----------------------------------------------------------------------------
(* SpecSlots: more concurrent callers of Download / HandleUploadRequest     *)
(* than the semaphore has slots.  The callers run the same code and differ  *)
(* only in how far they are, so the state is the bag of caller states; a    *)
(* caller state is its position and the status of the record it created.    *)
(* The steps are those of SpecTransfer with the streaming of a whole file   *)
(* taken as one step.                                                       *)

\* concurrent callers
NumCallers == 6

Waiting == [pc |-> "idle", status |-> "none"]

\* positions at which a caller holds a slot
Holding == {"held", "body", "complete", "release"}

CallersAt(pcs) ==
  BagCardinality([e \in {x \in BagToSet(crowd) : x.pc \in pcs} |-> crowd[e]])

CallersWith(st) ==
  BagCardinality([e \in {x \in BagToSet(crowd) : x.status = st} |-> crowd[e]])

\* one caller in state from moves to state to
Move(from, to) ==
  /\ BagIn(from, crowd)
  /\ crowd' = (crowd (-) SetToBag({from})) (+) SetToBag({to})

InitSlots ==
  /\ RepIdle
  /\ ThrIdle
  /\ AuxIdle
  /\ semaphore = 0
  /\ transfers = <<>>
  /\ task = <<>>
  /\ disk = <<>>
  /\ cancelInfo = <<>>
  /\ progressChan = 0
  /\ crowd = [e \in {Waiting} |-> NumCallers]

slotsFrame == UNCHANGED <<repVars, thrVars, transfers, task, disk,
                          cancelInfo, progressChan, auxVars>>

\* tm.semaphore <- struct{}{} at the head of Download / HandleUploadRequest
CrowdAcquire ==
  /\ SlotFree(semaphore)
  /\ Move(Waiting, [pc |-> "held", status |-> "none"])
  /\ semaphore' = semaphore + 1
  /\ slotsFrame

\* a return before the record exists: connection or request failure,
\* rejection, file not found
CrowdReturnEarly ==
  /\ Move([pc |-> "held", status |-> "none"],
          [pc |-> "release", status |-> "none"])
  /\ UNCHANGED semaphore
  /\ slotsFrame

\* addTransfer of the record, created active
CrowdAddTransfer ==
  /\ Move([pc |-> "held", status |-> "none"],
          [pc |-> "body", status |-> "active"])
  /\ UNCHANGED semaphore
  /\ slotsFrame

\* receiveFile / streamFile up to its return: it sets completed or failed,
\* or returns an error without writing the status
CrowdStream ==
  /\ \E st \in {"active", "cancelled"} :
       \E out \in {st, "completed", "failed"} :
         Move([pc |-> "body", status |-> st],
              [pc |-> "complete", status |-> out])
  /\ UNCHANGED semaphore
  /\ slotsFrame

\* the deferred completeTransfer
CrowdComplete ==
  /\ \E st \in {"active"} \cup TerminalStatus :
       Move([pc |-> "complete", status |-> st],
            [pc |-> "release",
             status |-> IF st = "active" THEN "completed" ELSE st])
  /\ UNCHANGED semaphore
  /\ slotsFrame

\* the deferred <-tm.semaphore, and the return
CrowdRelease ==
  /\ \E st \in {"none"} \cup TerminalStatus :
       Move([pc |-> "release", status |-> st],
            [pc |-> "done", status |-> st])
  /\ semaphore' = semaphore - 1
  /\ slotsFrame

\* CancelTransfer(id) on an active record
CrowdCancel ==
  /\ \E pc \in {"body", "complete"} :
       Move([pc |-> pc, status |-> "active"],
            [pc |-> pc, status |-> "cancelled"])
  /\ UNCHANGED semaphore
  /\ slotsFrame

NextSlots ==
  \/ CrowdAcquire
  \/ CrowdReturnEarly
  \/ CrowdAddTransfer
  \/ CrowdStream
  \/ CrowdComplete
  \/ CrowdRelease
  \/ CrowdCancel

SpecSlots == InitSlots /\ [][NextSlots]_vars

\* C6: at most MaxConcurrentTransfers (5) callers hold a slot, every active
\* record belongs to a caller holding a slot, so at most 5 records are
\* active; a caller takes a slot only while fewer than 5 are held, and a
\* caller without a slot has created no record.
C6_SlotLimit ==
  /\ [](/\ CallersAt(Holding) <= 5
        /\ CallersAt(Holding) = semaphore
        /\ CallersWith("active") <= CallersAt(Holding)
        /\ CallersWith("active") <= 5
        /\ \A e \in BagToSet(crowd) : e.pc = "idle" => e.status = "none")
  /\ [][CallersAt(Holding)' > CallersAt(Holding) =>
          /\ CallersAt(Holding) < 5
          /\ CallersAt(Holding)' = CallersAt(Holding) + 1]_vars

\* C6's case: five callers hold the five slots with their records active,
\* and a sixth caller is blocked at the semaphore
C6_Witness ==
  /\ CallersAt(Holding) = 5
  /\ CallersWith("active") = 5
  /\ BagIn(Waiting, crowd)
  /\ ~ENABLED CrowdAcquire

-----------------------------------------------------------------------------
(* analytics.Throttler (backend/analytics/throttling.go): one throttler,    *)
(* its refill goroutine, concurrent Acquire calls, UpdateReputation and     *)
(* Stop.  Bandwidths and grants are in bytes, reputations in tenths.        *)

LeecherBandwidth == 51200
NormalBandwidth == 512000
PremiumBandwidth == 5242880
LeecherThreshold == 30
PremiumThreshold == 80
TokenBucketSize == 10

AcqCallers == {"a1", "a2"}

\* byte counts passed to Acquire: one byte, one byte more than a Leecher
\* token, one byte more than a full Premium bucket
AcquireSizes == {1, 5121, 5242881}

\* reputations passed to NewThrottler / UpdateReputation
Reputations == {0, 29, 30, 50, 79, 80, 100}

\* determineTier with the Leecher threshold itself counted as Leecher
determineTierLax(reputation) ==
  IF reputation <= LeecherThreshold THEN "Leecher"
  ELSE IF reputation >= PremiumThreshold THEN "Premium"
  ELSE "Normal"

determineTier(reputation) ==
  IF reputation < LeecherThreshold THEN "Leecher"
  ELSE IF reputation >= PremiumThreshold THEN "Premium"
  ELSE "Normal"

GetBandwidth(tier) ==
  CASE tier = "Leecher" -> LeecherBandwidth
    [] tier = "Normal" -> NormalBandwidth
    [] tier = "Premium" -> PremiumBandwidth
    [] OTHER -> NormalBandwidth

NewThrottler(reputation) ==
  [tier |-> determineTier(reputation),
   bandwidth |-> GetBandwidth(determineTier(reputation)),
   tokens |-> TokenBucketSize,
   maxTokens |-> TokenBucketSize,
   tokenSize |-> GetBandwidth(determineTier(reputation)) \div TokenBucketSize,
   isRunning |-> FALSE]

\* tokensNeeded rounded down instead of up
TokensNeededFloor(bytes, tokenSize) == bytes \div tokenSize

\* Acquire: tokensNeeded, rounded up
TokensNeeded(bytes, tokenSize) == (bytes + tokenSize - 1) \div tokenSize

IdleAcq == [pc |-> "idle", bytes |-> 0, tokensNeeded |-> 0, tokenSize |-> 0]

NoGrant == [bytes |-> 0, granted |-> 0, steady |-> FALSE]

\* NewThrottler for any reputation, then Start
InitThrottle ==
  /\ RepIdle
  /\ XferIdle
  /\ AuxIdle
  /\ \E r \in Reputations : thr = [NewThrottler(r) EXCEPT !.isRunning = TRUE]
  /\ acq = [c \in AcqCallers |-> IdleAcq]
  /\ lastGrant = NoGrant

thrFrame == UNCHANGED <<repVars, xferVars, auxVars>>

\* a refill that adds its token whatever the balance
RefillTokensUncapped(tokens, maxTokens) == tokens + 1

\* the refill goroutine's update of t.tokens on a tick
RefillTokens(tokens, maxTokens) ==
  IF tokens < maxTokens
  THEN (IF tokens + 1 > maxTokens THEN maxTokens ELSE tokens + 1)
  ELSE tokens

\* the refill goroutine on a tick: one token while below capacity
Refill ==
  /\ thr.isRunning
  /\ RefillTokens(thr.tokens, thr.maxTokens) # thr.tokens
  /\ thr' = [thr EXCEPT !.tokens = RefillTokens(@, thr.maxTokens)]
  /\ UNCHANGED <<acq, lastGrant>>
  /\ thrFrame

\* Acquire(bytes): tokensNeeded from t.tokenSize, read before the lock
AcquireStart(c, bytes) ==
  /\ acq[c].pc = "idle"
  /\ acq' = [acq EXCEPT ![c] =
               [pc |-> "wait", bytes |-> bytes,
                tokensNeeded |-> TokensNeeded(bytes, thr.tokenSize),
                tokenSize |-> thr.tokenSize]]
  /\ UNCHANGED <<thr, lastGrant>>
  /\ thrFrame

\* Acquire: one pass of the loop, under t.mutex, that returns; with no
\* token the pass changes nothing and the caller sleeps
AcquireGrant(c) ==
  /\ acq[c].pc = "wait"
  /\ \/ /\ thr.tokens >= acq[c].tokensNeeded
        /\ thr' = [thr EXCEPT !.tokens = @ - acq[c].tokensNeeded]
        /\ lastGrant' = [bytes |-> acq[c].bytes, granted |-> acq[c].bytes,
                         steady |-> acq[c].tokenSize = thr.tokenSize]
     \/ /\ thr.tokens < acq[c].tokensNeeded
        /\ thr.tokens > 0
        /\ thr' = [thr EXCEPT !.tokens = 0]
        /\ lastGrant' = [bytes |-> acq[c].bytes,
                         granted |-> thr.tokens * thr.tokenSize,
                         steady |-> acq[c].tokenSize = thr.tokenSize]
  /\ acq' = [acq EXCEPT ![c] = IdleAcq]
  /\ thrFrame

\* UpdateReputation(newReputation): a step only when the tier changes
UpdateReputation(newReputation) ==
  /\ determineTier(newReputation) # thr.tier
  /\ thr' = [thr EXCEPT
               !.tier = determineTier(newReputation),
               !.bandwidth = GetBandwidth(determineTier(newReputation)),
               !.tokenSize = GetBandwidth(determineTier(newReputation))
                               \div TokenBucketSize]
  /\ UNCHANGED <<acq, lastGrant>>
  /\ thrFrame

\* Stop (from RemoveThrottler): the refill goroutine ends
Stop ==
  /\ thr.isRunning
  /\ thr' = [thr EXCEPT !.isRunning = FALSE]
  /\ UNCHANGED <<acq, lastGrant>>
  /\ thrFrame

NextThrottle ==
  \/ Refill
  \/ \E c \in AcqCallers, b \in AcquireSizes : AcquireStart(c, b)
  \/ \E c \in AcqCallers : AcquireGrant(c)
  \/ \E r \in Reputations : UpdateReputation(r)
  \/ Stop

SpecThrottle == InitThrottle /\ [][NextThrottle]_vars

\* ceil(b/s): the least k with k * s >= b
CeilDiv(b, s) == IF b % s = 0 THEN b \div s ELSE (b \div s) + 1

\* C10: an Acquire(b) call with b > 0 that returns while the token size is
\* the one it started with, at balance t and token size s: with
\* t >= ceil(b/s) it returns b and takes exactly ceil(b/s) tokens; with
\* 0 < t < ceil(b/s) it returns t*s < b and leaves the balance 0; the grant
\* never exceeds t*s.
C10_AcquireGrant ==
  [][\A c \in AcqCallers :
       (acq[c].pc = "wait" /\ acq'[c].pc = "idle"
          /\ acq[c].tokenSize = thr.tokenSize) =>
         LET b == acq[c].bytes
             s == thr.tokenSize
             t == thr.tokens
         IN  /\ b > 0
             /\ t >= CeilDiv(b, s) =>
                  /\ lastGrant'.granted = b
                  /\ thr'.tokens = t - CeilDiv(b, s)
             /\ (0 < t /\ t < CeilDiv(b, s)) =>
                  /\ lastGrant'.granted = t * s
                  /\ lastGrant'.granted < b
                  /\ thr'.tokens = 0
             /\ lastGrant'.granted <= t * s
             /\ lastGrant'.granted > 0
             /\ lastGrant'.bytes = b
    ]_vars

\* C10's case: a call that kept its token size was granted part of what it
\* asked for and emptied the bucket
C10_Witness ==
  /\ lastGrant.steady
  /\ lastGrant.bytes = 5121
  /\ lastGrant.granted = 5120
  /\ thr.tokens = 0

-----------------------------------------------------------------------------
(* Further claims about the throttler *)

\* C11: in every reachable state the balance of the throttler is between 0
\* and maxTokens, and maxTokens is the fixed capacity 10.
C11_TokensInRange ==
  /\ thr.maxTokens = 10
  /\ 0 <= thr.tokens
  /\ thr.tokens <= thr.maxTokens

\* C11's case: the bucket was drawn from by an Acquire call and refilled up
\* to its capacity, with a further Acquire call in progress
C11_Witness ==
  /\ lastGrant.granted > 0
  /\ thr.tokens = thr.maxTokens
  /\ thr.isRunning
  /\ \E c \in AcqCallers : acq[c].pc = "wait"

-----------------------------------------------------------------------------
(* SpecTier: determineTier and BandwidthTier.GetBandwidth applied to any    *)
(* reputation from 0.0 to 10.0, in tenths                                   *)

InitTier ==
  /\ RepIdle
  /\ XferIdle
  /\ ThrIdle
  /\ DiscIdle
  /\ IdxIdle
  /\ TailIdle
  /\ \E r \in MinReputation..MaxReputation :
       calc = [op |-> "determineTier", arg |-> r, done |-> FALSE, out |-> 0]

\* tier := determineTier(reputation); bandwidth := tier.GetBandwidth()
ApplyDetermineTier ==
  /\ calc.op = "determineTier"
  /\ ~calc.done
  /\ calc' = [calc EXCEPT
                !.done = TRUE,
                !.out = [tier |-> determineTier(calc.arg),
                         bandwidth |-> GetBandwidth(determineTier(calc.arg))]]
  /\ UNCHANGED <<repVars, xferVars, thrVars, discVars, idxVars, tailVars>>

NextTier == ApplyDetermineTier

SpecTier == InitTier /\ [][NextTier]_vars

SpecThrottleFair ==
  /\ SpecThrottle
  /\ WF_vars(Refill)
  /\ \A c \in AcqCallers : SF_vars(AcquireGrant(c))

\* C13: every Acquire(b) call with b > 0 eventually returns, whatever the
\* other Acquire calls, tier updates and the removal of the throttler do.
C13_AcquireReturns ==
  \A c \in AcqCallers : (acq[c].pc = "wait") ~> (acq[c].pc = "idle")

-----------------------------------------------------------------------------
(* SpecEvents: the reputation service by itself: the Record* calls, the     *)
(* event consumer, the decay task and HandleRegister, without the gateway   *)
(* handlers                                                                 *)

NextEvents ==
  \/ \E p \in Peers, r \in RatingScores : RecordRating(p, r)
  \/ \E p \in Peers : RecordLeeching(p)
  \/ ConsumerReceive
  \/ \E t \in UpdTasks : Store(t)
  \/ \E t \in UpdTasks : Settle(t)
  \/ \E t \in UpdTasks : Log(t)
  \/ DecayTick
  \/ DecayVisit
  \/ \E p \in Peers : TimePasses(p)
  \/ \E p \in Peers : HandleRegister(p)

SpecEvents == Init /\ [][NextEvents]_vars

\* s is t with one entry appended
Extends(s, t) == Len(s) = Len(t) + 1 /\ SubSeq(s, 1, Len(t)) = t

\* C14: the consumer takes the queued events oldest first and one at a
\* time; for an event of a registered peer it stores the score it loaded
\* plus the event's delta once and appends the event to the history once;
\* an event of an unknown peer is dropped; the queue only grows at its tail
\* and the history only by appends of the event a task holds.
C14_ConsumerInOrderOnce ==
  [][LET c == upd["consumer"]
         c2 == upd'["consumer"]
     IN  /\ \/ eventChan' = eventChan
            \/ Extends(eventChan', eventChan)
            \/ /\ eventChan # <<>>
               /\ eventChan' = Tail(eventChan)
               /\ c.pc = "idle"
               /\ IF Head(eventChan).peer \in registry
                  THEN /\ c2.pc = "store"
                       /\ c2.ev = Head(eventChan)
                       /\ c2.tmp = score[Head(eventChan).peer]
                  ELSE UNCHANGED <<upd, score, eventHistory>>
         /\ (c.pc = "idle" /\ c2.pc # "idle") =>
              (eventChan # <<>> /\ eventChan' = Tail(eventChan))
         /\ (c.pc # "idle" /\ c2 # c /\ c2.stale = c.stale) =>
              /\ <<c.pc, c2.pc>> \in {<<"store", "settle">>,
                                      <<"settle", "log">>, <<"log", "idle">>}
              /\ c2.pc # "idle" => c2.ev = c.ev
         /\ (c.pc = "store" /\ c2.pc = "settle") =>
              /\ c2.tmp = c.tmp + c.ev.delta
              /\ ~c.stale => score'[c.ev.peer] = c.tmp + c.ev.delta
         /\ (c.pc = "log" /\ c2.pc = "idle") =>
              eventHistory' = Append(eventHistory, c.ev)
         /\ \/ eventHistory' = eventHistory
            \/ /\ Extends(eventHistory', eventHistory)
               /\ \E t \in UpdTasks :
                    /\ upd[t].pc = "log"
                    /\ upd'[t].pc = "idle"
                    /\ eventHistory'[Len(eventHistory')] = upd[t].ev
    ]_vars

\* C14's case: a LEECHING and then a good RATING event were queued for p1
\* and the consumer has applied both, in that order
C14_Witness ==
  /\ Len(eventHistory) = 2
  /\ eventHistory[1] = Event("LEECHING", "p1", -LeecherPenalty)
  /\ eventHistory[2] = Event("RATING", "p1", GoodRatingBonus)
  /\ score["p1"] = DefaultReputation - LeecherPenalty + GoodRatingBonus
  /\ upd["consumer"].pc = "idle"
  /\ eventChan = <<>>


-----------------------------------------------------------------------------
(* network.Discovery.  knownPeers maps a peer id to the time it was last   *)
(* heard of; the model keeps, per peer, whether that time is absent, within *)
(* PeerTimeout ("fresh") or older than PeerTimeout ("stale").  RegisterPeer,*)
(* HandleLeave, Subscribe and the write of pingPeer run under d.mutex;      *)
(* removeStale holds it from its first statement to its last, sends         *)
(* included.  A send to a full eventChan blocks: the step is not enabled.   *)

\* announcements, leaves and heartbeat rounds started
MaxDiscOps == 3
\* capacity of Discovery.eventChan (100 in the source)
DiscQueueCap == 2
\* capacity of a subscriber channel (10 in the source)
SubscriberCap == 1
\* Subscribe calls
MaxSubscribers == 2

EventPeerJoined == "PEER_JOINED"
EventPeerLeft == "PEER_LEFT"
EventPeerTimeout == "PEER_TIMEOUT"
EventPeerUpdated == "PEER_UPDATED"

\* a DiscoveryEvent; id is its position in the order of publication
DiscoveryEvent(type, p) == [type |-> type, peer |-> p, id |-> Len(published) + 1]

\* d.eventChan <- DiscoveryEvent{...}
Emit(type, p) ==
  /\ Len(discEvents) < DiscQueueCap
  /\ discEvents' = Append(discEvents, DiscoveryEvent(type, p))
  /\ published' = Append(published, DiscoveryEvent(type, p))

NoEmit == UNCHANGED <<discEvents, published>>

InitDiscovery ==
  /\ RepIdle
  /\ XferIdle
  /\ ThrIdle
  /\ CalcIdle
  /\ DiscIdle
  /\ IdxIdle
  /\ TailIdle

discFrame ==
  UNCHANGED <<score, uploads, downloads, isLeecher, eventChan, eventHistory,
              upd, decayTodo, files, downloadCount, req, ops, answer,
              xferVars, thrVars, calc, idxVars, tailVars>>

\* the branch RegisterPeer takes: the test of the second branch is on
\* knownPeers, not on the Student's IsOnline
RegisterBranch(peerExists, exists) ==
  IF ~peerExists THEN "create"
  ELSE IF ~exists THEN "returned"
  ELSE "refresh"

RegisterPeer(p) ==
  /\ dops < MaxDiscOps
  /\ dops' = dops + 1
  /\ ~sweep.active
  /\ knownPeers' = [knownPeers EXCEPT ![p] = "fresh"]
  /\ LET branch == RegisterBranch(p \in registry, knownPeers[p] # "absent")
     IN  CASE branch = "create" ->
                /\ registry' = registry \cup {p}
                /\ score' = [score EXCEPT ![p] = DefaultReputation]
                /\ uploads' = [uploads EXCEPT ![p] = 0]
                /\ downloads' = [downloads EXCEPT ![p] = 0]
                /\ isLeecher' = [isLeecher EXCEPT ![p] = FALSE]
                /\ idle24h' = idle24h \ {p}
                /\ online' = [online EXCEPT ![p] = TRUE]
                /\ timeouts' = [timeouts EXCEPT ![p] = 0]
                /\ Emit(EventPeerJoined, p)
           [] branch = "returned" ->
                /\ online' = [online EXCEPT ![p] = TRUE]
                /\ idle24h' = idle24h \ {p}
                /\ timeouts' = [timeouts EXCEPT ![p] = 0]
                /\ Emit(EventPeerUpdated, p)
                /\ UNCHANGED <<registry, score, uploads, downloads, isLeecher>>
           [] OTHER ->
                /\ NoEmit
                /\ UNCHANGED <<registry, score, uploads, downloads, isLeecher,
                               idle24h, online, timeouts>>
  /\ UNCHANGED <<sweep, pings, bcast, subscribers, received>>
  /\ UNCHANGED <<eventChan, eventHistory, upd, decayTodo, files,
                 downloadCount, req, ops, answer, xferVars, thrVars, calc,
                 idxVars, tailVars>>

HandleLeave(p) ==
  /\ dops < MaxDiscOps
  /\ dops' = dops + 1
  /\ ~sweep.active
  /\ knownPeers' = [knownPeers EXCEPT ![p] = "absent"]
  /\ IF p \in registry
     THEN /\ online' = [online EXCEPT ![p] = FALSE]
          /\ Emit(EventPeerLeft, p)
     ELSE /\ NoEmit
          /\ UNCHANGED online
  /\ UNCHANGED <<registry, idle24h, timeouts, sweep, pings, bcast,
                 subscribers, received>>
  /\ discFrame

\* more than PeerTimeout goes by since p was last heard of
TimeElapses(p) ==
  /\ knownPeers[p] = "fresh"
  /\ knownPeers' = [knownPeers EXCEPT ![p] = "stale"]
  /\ UNCHANGED <<registry, idle24h, online, timeouts, discEvents, sweep,
                 pings, bcast, subscribers, published, received, dops>>
  /\ discFrame

\* pingAllPeers: one pingPeer goroutine per tracked peer
PingAllPeers ==
  /\ dops < MaxDiscOps
  /\ dops' = dops + 1
  /\ ~sweep.active
  /\ pings' = pings \cup {p \in Peers : knownPeers[p] # "absent"}
  /\ UNCHANGED <<registry, idle24h, online, timeouts, knownPeers, discEvents,
                 sweep, bcast, subscribers, published, received>>
  /\ discFrame

\* pingPeer returns early: the peer is not registered, or the dial fails
PingFail(p) ==
  /\ p \in pings
  /\ pings' = pings \ {p}
  /\ UNCHANGED <<registry, idle24h, online, timeouts, knownPeers, discEvents,
                 sweep, bcast, subscribers, published, received, dops>>
  /\ discFrame

\* pingPeer reaches the peer: d.knownPeers[peerID] = time.Now(), whether or
\* not the peer is still tracked
PingOk(p) ==
  /\ p \in pings
  /\ p \in registry
  /\ ~sweep.active
  /\ pings' = pings \ {p}
  /\ knownPeers' = [knownPeers EXCEPT ![p] = "fresh"]
  /\ UNCHANGED <<registry, idle24h, online, timeouts, discEvents, sweep,
                 bcast, subscribers, published, received, dops>>
  /\ discFrame

\* the ids removeStale collects: now.Sub(lastSeen) > PeerTimeout
StaleIds == {p \in Peers : knownPeers[p] = "stale"}

\* removeStale takes d.mutex and collects the stale ids
SweepBegin ==
  /\ ~sweep.active
  /\ StaleIds # {}
  /\ sweep' = [active |-> TRUE, stale |-> StaleIds]
  /\ UNCHANGED <<registry, idle24h, online, timeouts, knownPeers, discEvents,
                 pings, bcast, subscribers, published, received, dops>>
  /\ discFrame

\* one iteration of removeStale's second loop
SweepVisit(p) ==
  /\ sweep.active
  /\ p \in sweep.stale
  /\ sweep' = [sweep EXCEPT !.stale = @ \ {p}]
  /\ knownPeers' = [knownPeers EXCEPT ![p] = "absent"]
  /\ IF p \in registry
     THEN /\ online' = [online EXCEPT ![p] = FALSE]
          /\ timeouts' = [timeouts EXCEPT ![p] = @ + 1]
          /\ Emit(EventPeerTimeout, p)
     ELSE /\ NoEmit
          /\ UNCHANGED <<online, timeouts>>
  /\ UNCHANGED <<registry, idle24h, pings, bcast, subscribers, received, dops>>
  /\ discFrame

\* removeStale returns and releases d.mutex
SweepEnd ==
  /\ sweep.active
  /\ sweep.stale = {}
  /\ sweep' = [sweep EXCEPT !.active = FALSE]
  /\ UNCHANGED <<registry, idle24h, online, timeouts, knownPeers, discEvents,
                 pings, bcast, subscribers, published, received, dops>>
  /\ discFrame
\* Subscribe: a new buffered channel at the end of d.subscribers
Subscribe ==
  /\ Len(subscribers) < MaxSubscribers
  /\ ~sweep.active
  /\ subscribers' = Append(subscribers, <<>>)
  /\ received' = Append(received, <<>>)
  /\ UNCHANGED <<registry, idle24h, online, timeouts, knownPeers, discEvents,
                 sweep, pings, bcast, published, dops>>
  /\ discFrame

\* broadcastEvents: event := <-d.eventChan
BroadcastReceive ==
  /\ bcast = <<>>
  /\ discEvents # <<>>
  /\ bcast' = <<Head(discEvents)>>
  /\ discEvents' = Tail(discEvents)
  /\ UNCHANGED <<registry, idle24h, online, timeouts, knownPeers, sweep, pings,
                 subscribers, published, received, dops>>
  /\ discFrame

\* a delivery that makes room in a full channel by dropping its oldest event
DeliverDropOldest(ch, event) ==
  IF Len(ch) < SubscriberCap THEN Append(ch, event)
  ELSE Append(Tail(ch), event)

\* select { case ch <- event: default: } on one subscriber channel
Deliver(ch, event) ==
  IF Len(ch) < SubscriberCap THEN Append(ch, event) ELSE ch

\* broadcastEvents: under d.mutex.RLock, the event is offered to every
\* subscriber in turn
BroadcastDeliver ==
  /\ bcast # <<>>
  /\ ~sweep.active
  /\ subscribers' = [i \in 1..Len(subscribers) |->
                       Deliver(subscribers[i], bcast[1])]
  /\ bcast' = <<>>
  /\ UNCHANGED <<registry, idle24h, online, timeouts, knownPeers, discEvents,
                 sweep, pings, published, received, dops>>
  /\ discFrame

\* the owner of subscription i reads one event from its channel
SubscriberRead(i) ==
  /\ i \in 1..Len(subscribers)
  /\ subscribers[i] # <<>>
  /\ received' = [received EXCEPT ![i] = Append(@, Head(subscribers[i]))]
  /\ subscribers' = [subscribers EXCEPT ![i] = Tail(@)]
  /\ UNCHANGED <<registry, idle24h, online, timeouts, knownPeers, discEvents,
                 sweep, pings, bcast, published, dops>>
  /\ discFrame

\* presence tracking alone: announcements, leaves, heartbeats, the cleanup
\* sweep and HTTP registration, with the broadcaster draining the events
NextPresence ==
  \/ \E p \in Peers : RegisterPeer(p)
  \/ \E p \in Peers : HandleLeave(p)
  \/ \E p \in Peers : TimeElapses(p)
  \/ PingAllPeers
  \/ \E p \in Peers : PingFail(p)
  \/ \E p \in Peers : PingOk(p)
  \/ SweepBegin
  \/ \E p \in Peers : SweepVisit(p)
  \/ SweepEnd
  \/ BroadcastReceive
  \/ BroadcastDeliver
  \/ \E p \in Peers : HandleRegister(p)

SpecPresence == InitDiscovery /\ [][NextPresence]_vars

\* event delivery alone: announcements and leaves publish, the broadcaster
\* delivers, subscribers read
NextBroadcast ==
  \/ \E p \in Peers : RegisterPeer(p)
  \/ \E p \in Peers : HandleLeave(p)
  \/ Subscribe
  \/ BroadcastReceive
  \/ BroadcastDeliver
  \/ \E i \in 1..MaxSubscribers : SubscriberRead(i)

SpecBroadcast == InitDiscovery /\ [][NextBroadcast]_vars

-----------------------------------------------------------------------------
\* the event a step publishes, if it publishes one
Publishes(type, p) ==
  /\ Len(published') = Len(published) + 1
  /\ published'[Len(published')].type = type
  /\ published'[Len(published')].peer = p

(* C15: the cleanup sweep emits a timeout event only for a tracked peer     *)
(* whose last-seen time is older than PeerTimeout, marks that peer offline  *)
(* and stops tracking it, and emits no second timeout event for a peer      *)
(* that has not been marked online since its previous one.                  *)
C15_OneTimeoutPerSilence ==
  [][\A p \in Peers :
       Publishes(EventPeerTimeout, p) =>
         /\ knownPeers[p] = "stale"
         /\ knownPeers'[p] = "absent"
         /\ ~online'[p]
         /\ timeouts[p] = 0]_vars

\* a step that processes an announcement for p
Announced(p) ==
  /\ dops' = dops + 1
  /\ pings' = pings
  /\ knownPeers' = [knownPeers EXCEPT ![p] = "fresh"]

(* C16: an announcement for an unregistered peer registers it online and    *)
(* publishes exactly one joined event; for a registered peer that was       *)
(* offline it marks the peer online and publishes exactly one updated       *)
(* event; for any other peer it publishes nothing and changes neither the   *)
(* registry nor the online flags.                                           *)
C16_AnnouncementEvents ==
  [][\A p \in Peers :
       Announced(p) =>
         IF p \notin registry
         THEN /\ p \in registry'
              /\ online'[p]
              /\ Publishes(EventPeerJoined, p)
         ELSE IF ~online[p]
         THEN /\ online'[p]
              /\ Publishes(EventPeerUpdated, p)
         ELSE /\ published' = published
              /\ online' = online
              /\ registry' = registry]_vars

\* what subscriber i has been handed so far: what it read, then what waits
\* in its channel
Handed(i) == received[i] \o subscribers[i]

\* s holds events of the published sequence, in the order of publication,
\* each at most once
SubsequenceOfPublished(s) ==
  /\ \A k \in 1..Len(s) :
       /\ s[k].id \in 1..Len(published)
       /\ published[s[k].id] = s[k]
  /\ \A k \in 1..Len(s) - 1 : s[k].id < s[k + 1].id

(* C17: what each subscriber receives is a subsequence of the published     *)
(* events (same order, each at most once); a delivery skips exactly the     *)
(* subscribers whose buffer is full; and the broadcaster, holding an event, *)
(* can always complete its delivery whatever the subscribers' buffers hold. *)
C17_SubscribersSeeSubsequence ==
  /\ [](\A i \in 1..Len(subscribers) : SubsequenceOfPublished(Handed(i)))
  /\ []((bcast # <<>> /\ ~sweep.active) => ENABLED BroadcastDeliver)
  /\ [][(bcast # <<>> /\ bcast' = <<>>) =>
          \A i \in 1..Len(subscribers) :
            /\ received'[i] = received[i]
            /\ subscribers'[i] =
                 IF Len(subscribers[i]) = SubscriberCap
                 THEN subscribers[i]
                 ELSE Append(subscribers[i], bcast[1])]_vars

\* a subscriber missed an event while its buffer was full and received a
\* later one
C17_Witness ==
  \E i \in 1..Len(subscribers) :
    /\ received[i] # <<>>
    /\ subscribers[i] # <<>>
    /\ subscribers[i][1].id > received[i][Len(received[i])].id + 1

-----------------------------------------------------------------------------
(* models.FileIndex and models.AcademicFile.  fileIndex is the map          *)
(* FileIndex.files: its domain is the set of CIDs that have a record.       *)
(* AverageRating is kept as the sum of the ratings, next to TotalRatings.   *)

\* index operations in one run
MaxIndexOps == 3

\* the byte contents callers upload
UploadContents == Contents(1)

\* ratings AddRating is given (1 .. 5)
FileRatings == {1, 5}

\* length of a hexadecimal digest (64 in the source)
DigestHexLen == 4

HexDigits == <<"0", "1", "2", "3", "4", "5", "6", "7",
               "8", "9", "a", "b", "c", "d", "e", "f">>

RECURSIVE Pow16(_)
Pow16(k) == IF k = 0 THEN 1 ELSE 16 * Pow16(k - 1)

\* hex.EncodeToString of a digest: DigestHexLen lowercase hexadecimal
\* digits, the low-order digit first, so that the leading digits tell the
\* digests of the model apart as the leading half of a SHA-256 digest does
HexEncode(digest) ==
  [k \in 1..DigestHexLen |-> HexDigits[((digest \div Pow16(k - 1)) % 16) + 1]]

\* models.GenerateCID / GenerateChecksum: the hexadecimal SHA-256 digest of
\* the content
GenerateCID(content) == HexEncode(HashBytes(content))

\* the elements of a slice
Elems(s) == {s[k] : k \in 1..Len(s)}

NewAcademicFile(ownerID, content) ==
  [cid |-> GenerateCID(content),
   ownerID |-> ownerID,
   downloadCount |-> 0,
   ratingSum |-> 0,
   totalRatings |-> 0,
   peerLocations |-> <<ownerID>>,
   isAvailable |-> TRUE,
   checksum |-> GenerateCID(content)]

\* FileIndex.Add: fi.files[file.CID] = file
FileIndexAdd(index, file) ==
  [c \in DOMAIN index \cup {file.cid} |->
     IF c = file.cid THEN file ELSE index[c]]

\* AcademicFile.AddPeerLocation
AddPeerLocation(f, peerID) ==
  IF peerID \in Elems(f.peerLocations) THEN f
  ELSE [f EXCEPT !.peerLocations = Append(@, peerID)]

\* AcademicFile.RemovePeerLocation
RemovePeerLocation(f, peerID) ==
  LET newLocations == SelectSeq(f.peerLocations, LAMBDA id : id # peerID)
  IN  [f EXCEPT !.peerLocations = newLocations,
                !.isAvailable = Len(newLocations) > 0]

InitIndex ==
  /\ RepIdle
  /\ XferIdle
  /\ ThrIdle
  /\ CalcIdle
  /\ DiscIdle
  /\ IdxIdle
  /\ TailIdle

idxFrame ==
  UNCHANGED <<registry, score, uploads, downloads, isLeecher, idle24h, online,
              timeouts, eventHistory, upd, decayTodo, files, downloadCount,
              req, ops, answer, xferVars, thrVars, calc, discVars, tailVars>>

\* Router.uploadHandler: NewAcademicFile, FileIndex.Add, RecordUpload, and
\* the CID in the answer
UploadFile(content, ownerID) ==
  /\ iops < MaxIndexOps
  /\ iops' = iops + 1
  /\ fileIndex' = FileIndexAdd(fileIndex, NewAcademicFile(ownerID, content))
  /\ Enqueue(Event("UPLOAD", ownerID, UploadBonus))
  /\ lastUpload' = [content |-> content, owner |-> ownerID,
                    cid |-> NewAcademicFile(ownerID, content).cid]
  /\ idxFrame

\* a method call on the record stored under cid
OnRecord(cid, after) ==
  /\ iops < MaxIndexOps
  /\ iops' = iops + 1
  /\ fileIndex' = [fileIndex EXCEPT ![cid] = after]
  /\ UNCHANGED <<lastUpload, eventChan>>
  /\ idxFrame

CallAddPeerLocation(cid, peerID) ==
  /\ cid \in DOMAIN fileIndex
  /\ OnRecord(cid, AddPeerLocation(fileIndex[cid], peerID))

CallRemovePeerLocation(cid, peerID) ==
  /\ cid \in DOMAIN fileIndex
  /\ OnRecord(cid, RemovePeerLocation(fileIndex[cid], peerID))

\* AcademicFile.RecordDownload
FileRecordDownload(cid) ==
  /\ cid \in DOMAIN fileIndex
  /\ OnRecord(cid, [fileIndex[cid] EXCEPT !.downloadCount = @ + 1])

\* AcademicFile.AddRating
AddRating(cid, rating) ==
  /\ cid \in DOMAIN fileIndex
  /\ OnRecord(cid, [fileIndex[cid] EXCEPT !.totalRatings = @ + 1,
                                          !.ratingSum = @ + rating])

IndexCIDs == {GenerateCID(c) : c \in UploadContents}

NextIndex ==
  \/ \E c \in UploadContents, p \in Peers : UploadFile(c, p)
  \/ \E cid \in IndexCIDs, p \in Peers : CallAddPeerLocation(cid, p)
  \/ \E cid \in IndexCIDs, p \in Peers : CallRemovePeerLocation(cid, p)
  \/ \E cid \in IndexCIDs : FileRecordDownload(cid)
  \/ \E cid \in IndexCIDs, r \in FileRatings : AddRating(cid, r)
  \/ ConsumerReceive

SpecIndex == InitIndex /\ [][NextIndex]_vars

\* an upload of content by ownerID is what this step did
Uploaded(content, ownerID) ==
  /\ iops' = iops + 1
  /\ eventChan' = Append(eventChan, Event("UPLOAD", ownerID, UploadBonus))
  /\ lastUpload'.content = content
  /\ lastUpload'.owner = ownerID

(* C18: when owner B uploads a content that owner A, another peer, has      *)
(* uploaded before, the upload answers the CID of the existing record, and  *)
(* afterwards that record lists both A and B as peer locations and keeps    *)
(* the download count and the rating aggregates it had.                     *)
C18_SecondUploadMerges ==
  [][\A c \in UploadContents, A \in Peers, B \in Peers :
       (/\ A # B
        /\ Uploaded(c, B)
        /\ GenerateCID(c) \in DOMAIN fileIndex
        /\ fileIndex[GenerateCID(c)].ownerID = A
        /\ A \in Elems(fileIndex[GenerateCID(c)].peerLocations))
       => LET old == fileIndex[GenerateCID(c)]
              new == fileIndex'[GenerateCID(c)]
          IN  /\ lastUpload'.cid = old.cid
              /\ DOMAIN fileIndex' = DOMAIN fileIndex
              /\ {A, B} \subseteq Elems(new.peerLocations)
              /\ new.downloadCount = old.downloadCount
              /\ new.totalRatings = old.totalRatings
              /\ new.ratingSum = old.ratingSum]_vars

(* C19: every record is available exactly when it has a peer location, no  *)
(* record lists a peer twice, and adding or removing a peer a second time   *)
(* changes nothing.                                                         *)
C19_AvailableIffLocated ==
  \A cid \in DOMAIN fileIndex :
    LET f == fileIndex[cid] IN
      /\ f.isAvailable <=> (f.peerLocations # <<>>)
      /\ Cardinality(Elems(f.peerLocations)) = Len(f.peerLocations)
      /\ \A p \in Peers :
           /\ AddPeerLocation(AddPeerLocation(f, p), p) = AddPeerLocation(f, p)
           /\ RemovePeerLocation(RemovePeerLocation(f, p), p)
                = RemovePeerLocation(f, p)

-----------------------------------------------------------------------------
(* ReputationService.CalculateReputation called on a registered Student *)

CallCalculateReputation(p) ==
  /\ p \in registry
  /\ calc' = [op |-> "CalculateReputation", arg |-> p, done |-> TRUE,
              out |-> CalculateReputation(score[p], uploads[p], downloads[p])]
  /\ UNCHANGED <<repVars, xferVars, thrVars, discVars, idxVars, tailVars>>

NextReputation == \E p \in Peers : CallCalculateReputation(p)

SpecReputation == InitCalc /\ [][NextReputation]_vars

\* the adjustment the ratio of uploads to downloads calls for, in tenths:
\* u/d < 0.5 is 10u < 5d, u/d > 1.5 is 10u > 15d
RatioAdjustment(u, d) ==
  IF d = 0 THEN 0
  ELSE IF 10 * u < 5 * d THEN -10
  ELSE IF 10 * u > 15 * d THEN 5
  ELSE 0

(* C20: CalculateReputation returns the stored score plus the ratio         *)
(* adjustment (-1.0 below 0.5, +0.5 above 1.5, none otherwise or without    *)
(* downloads), brought into [0,10]; the call changes neither the stored     *)
(* score, nor the counters, nor the event history.                          *)
C20_CalculateReputation ==
  /\ [](calc.op = "CalculateReputation" =>
          LET p == calc.arg
              raw == score[p] + RatioAdjustment(uploads[p], downloads[p])
          IN  /\ calc.out \in MinReputation..MaxReputation
              /\ raw \in MinReputation..MaxReputation => calc.out = raw
              /\ raw < MinReputation => calc.out = MinReputation
              /\ raw > MaxReputation => calc.out = MaxReputation)
  /\ [][calc' # calc =>
          UNCHANGED <<score, uploads, downloads, isLeecher, eventHistory,
                      eventChan, registry>>]_vars

\* a heavy downloader with a low score: the penalty is applied and clamped
C20_Witness ==
  /\ calc.op = "CalculateReputation"
  /\ calc.arg = "p1"
  /\ score["p1"] = 5
  /\ downloads["p1"] > 0
  /\ 2 * uploads["p1"] < downloads["p1"]
  /\ calc.out = 0

-----------------------------------------------------------------------------
(* models.Student: the methods that move the counters and recompute the     *)
(* leecher flag, called one after the other on Students made by NewStudent. *)

\* largest value a counter reaches in a run
MaxTally == 7

studentFrame ==
  UNCHANGED <<registry, idle24h, online, timeouts, eventChan, eventHistory,
              upd, decayTodo, files, downloadCount, req, ops, answer,
              xferVars, thrVars, auxVars>>

\* Student.RecordUpload: TotalUploads++, UpdateReputation(0.5) with its
\* clamp and its checkLeecherStatus
StudentRecordUpload(p) ==
  /\ uploads[p] < MaxTally
  /\ uploads' = [uploads EXCEPT ![p] = @ + 1]
  /\ score' = [score EXCEPT ![p] = Clamp(@ + UploadBonus)]
  /\ isLeecher' = [isLeecher EXCEPT ![p] =
                     CheckLeecherStatus(uploads[p] + 1, downloads[p], @)]
  /\ UNCHANGED downloads
  /\ studentFrame

\* Student.RecordDownload: TotalDownloads++, checkLeecherStatus
StudentRecordDownload(p) ==
  /\ downloads[p] < MaxTally
  /\ downloads' = [downloads EXCEPT ![p] = @ + 1]
  /\ isLeecher' = [isLeecher EXCEPT ![p] =
                     CheckLeecherStatus(uploads[p], downloads[p] + 1, @)]
  /\ UNCHANGED <<uploads, score>>
  /\ studentFrame

InitStudent ==
  /\ RepIdle
  /\ XferIdle
  /\ ThrIdle
  /\ AuxIdle

NextStudent ==
  \/ \E p \in Peers : StudentRecordUpload(p)
  \/ \E p \in Peers : StudentRecordDownload(p)

SpecStudent == InitStudent /\ [][NextStudent]_vars

(* C21: after a step that recomputes a peer's leecher flag, a peer with no  *)
(* uploads and no downloads is not flagged, and a peer whose downloads      *)
(* exceed three times its uploads is flagged.                               *)
C21_LeecherFlag ==
  [][\A p \in Peers :
       (uploads'[p] # uploads[p] \/ downloads'[p] # downloads[p]) =>
         /\ (uploads'[p] = 0 /\ downloads'[p] = 0) => ~isLeecher'[p]
         /\ downloads'[p] > 3 * uploads'[p] => isLeecher'[p]]_vars

-----------------------------------------------------------------------------
(* analytics.RatingService: RateFile and RatePeer validate and queue a      *)
(* rating; processRatings takes the ratings one at a time and applyRating   *)
(* stores each, updates the statistics and, for a peer rating, calls        *)
(* RecordRating.  Rating scores are in tenths, like reputation scores.      *)

\* rating calls in one run
MaxRateOps == 3
\* capacity of RatingService.ratingChan (100 in the source)
RatingQueueCap == 2

MinRatingValue == 10
MaxRatingValue == 50

\* the scores callers submit: 0.5, 1.0, 5.0 and 5.5
RateScores == {5, 10, 50, 55}

\* the files that are rated
RatedFiles == {"c1"}

Rating(rater, targetType, target, sc) ==
  [rater |-> rater, targetType |-> targetType, target |-> target, score |-> sc]

\* RatingStore.HasRated: a stored rating of that target by that rater
HasRated(raterID, targetID) ==
  \E k \in 1..Len(ratingStore) :
    ratingStore[k].target = targetID /\ ratingStore[k].rater = raterID

\* the checks of RatePeer with the self-rating check left out
RateVerdictNoSelf(r) ==
  IF r.score < MinRatingValue \/ r.score > MaxRatingValue THEN "score"
  ELSE IF HasRated(r.rater, r.target) THEN "rated"
  ELSE "nil"

\* the checks of RateFile and RatePeer, in the order of the code: the error
\* returned, "nil" when the rating is accepted
RateVerdict(r) ==
  IF r.score < MinRatingValue \/ r.score > MaxRatingValue THEN "score"
  ELSE IF r.targetType = "student" /\ r.rater = r.target THEN "self"
  ELSE IF HasRated(r.rater, r.target) THEN "rated"
  ELSE "nil"

InitRating ==
  /\ registry = Peers
  /\ online = [p \in Peers |-> TRUE]
  /\ timeouts = [p \in Peers |-> 0]
  /\ score = [p \in Peers |-> DefaultReputation]
  /\ uploads = [p \in Peers |-> 0]
  /\ downloads = [p \in Peers |-> 0]
  /\ isLeecher = [p \in Peers |-> FALSE]
  /\ idle24h = {}
  /\ eventChan = <<>>
  /\ eventHistory = <<>>
  /\ upd = [t \in UpdTasks |-> IdleUpd]
  /\ decayTodo = {}
  /\ files = RatedFiles
  /\ downloadCount = [c \in CIDs |-> 0]
  /\ req = [h \in Handlers |-> IdleReq]
  /\ ops = 0
  /\ answer = NoAnswer
  /\ XferIdle
  /\ ThrIdle
  /\ AuxIdle

rateFrame ==
  UNCHANGED <<registry, score, uploads, downloads, isLeecher, idle24h, online,
              timeouts, eventHistory, upd, decayTodo, files, downloadCount,
              req, ops, answer, xferVars, thrVars, calc, discVars, idxVars,
              stopVars, lateVars>>

\* RateFile / RatePeer, given the rating the caller asks for
Submit(r) ==
  /\ rops < MaxRateOps
  /\ rops' = rops + 1
  /\ rateAnswer' = [call |-> r, err |-> RateVerdict(r)]
  /\ IF RateVerdict(r) = "nil"
     THEN /\ Len(ratingChan) < RatingQueueCap
          /\ ratingChan' = Append(ratingChan, r)
     ELSE UNCHANGED ratingChan
  /\ UNCHANGED <<ratingStore, ratingStats, rproc, eventChan>>
  /\ rateFrame

RateFile(raterID, fileCID, sc) ==
  /\ Submit(Rating(raterID, "file", fileCID, sc))

RatePeer(raterID, targetPeerID, sc) ==
  /\ Submit(Rating(raterID, "student", targetPeerID, sc))

\* processRatings: rating := <-rs.ratingChan
RatingReceive ==
  /\ rproc.pc = "idle"
  /\ ratingChan # <<>>
  /\ rproc' = [pc |-> "add", rating |-> Head(ratingChan)]
  /\ ratingChan' = Tail(ratingChan)
  /\ UNCHANGED <<ratingStore, ratingStats, rateAnswer, rops, eventChan>>
  /\ rateFrame

\* Rating.IsValid, as RatingStore.Add asks it
RatingIsValid(r) ==
  /\ r.rater # ""
  /\ r.target # ""
  /\ r.targetType \in {"file", "student"}
  /\ r.score >= MinRatingValue
  /\ r.score <= MaxRatingValue
  /\ r.rater # r.target

\* applyRating: RatingStore.Add; an invalid rating ends applyRating
RatingAdd ==
  /\ rproc.pc = "add"
  /\ IF RatingIsValid(rproc.rating)
     THEN /\ ratingStore' = Append(ratingStore, rproc.rating)
          /\ rproc' = [rproc EXCEPT !.pc = "stats"]
     ELSE /\ rproc' = [pc |-> "idle", rating |-> NoRating]
          /\ UNCHANGED ratingStore
  /\ UNCHANGED <<ratingChan, ratingStats, rateAnswer, rops, eventChan>>
  /\ rateFrame

\* applyRating under rs.mutex: the statistics, and RecordRating for a peer
RatingApply ==
  /\ rproc.pc = "stats"
  /\ LET r == rproc.rating IN
       IF r.targetType = "file"
       THEN /\ ratingStats' = [ratingStats EXCEPT !.files = @ + 1,
                                                  !.fileSum = @ + r.score]
            /\ UNCHANGED eventChan
       ELSE /\ ratingStats' = [ratingStats EXCEPT !.peers = @ + 1,
                                                  !.peerSum = @ + r.score]
            /\ IF RatingDelta(r.score) = 0
               THEN UNCHANGED eventChan
               ELSE Enqueue(Event("RATING", r.target, RatingDelta(r.score)))
  /\ rproc' = [pc |-> "idle", rating |-> NoRating]
  /\ UNCHANGED <<ratingChan, ratingStore, rateAnswer, rops>>
  /\ rateFrame

NextRating ==
  \/ \E r \in Peers, c \in RatedFiles, sc \in RateScores : RateFile(r, c, sc)
  \/ \E r \in Peers, t \in Peers, sc \in RateScores : RatePeer(r, t, sc)
  \/ RatingReceive
  \/ RatingAdd
  \/ RatingApply
  \/ ConsumerReceive
  \/ \E t \in UpdTasks : Store(t)
  \/ \E t \in UpdTasks : Settle(t)
  \/ \E t \in UpdTasks : Log(t)

SpecRating == InitRating /\ [][NextRating]_vars

(* C22: a RateFile or RatePeer call is rejected when its score is outside   *)
(* [1,5], when (RatePeer) the rater is the target, and when the store       *)
(* already holds a rating of that target by that rater; a rejected call     *)
(* queues nothing and changes neither the rating store, nor the             *)
(* statistics, nor the reputation queue, nor any score.                     *)
C22_RejectedRatings ==
  [][rops' = rops + 1 =>
       LET r == rateAnswer'.call
           rejected == rateAnswer'.err # "nil"
       IN  /\ (r.score < 10 \/ r.score > 50) => rejected
           /\ (r.targetType = "student" /\ r.rater = r.target) => rejected
           /\ HasRated(r.rater, r.target) => rejected
           /\ rejected =>
                UNCHANGED <<ratingChan, ratingStore, ratingStats, rproc,
                            eventChan, eventHistory, score, isLeecher>>]_vars

\* a second rating of a peer was rejected because the first one is stored
C22_Witness ==
  /\ rateAnswer.err = "rated"
  /\ rateAnswer.call.targetType = "student"
  /\ HasRated(rateAnswer.call.rater, rateAnswer.call.target)
  /\ ratingChan = <<>>

-----------------------------------------------------------------------------
(* FileIndex.Search over an index of file records.  A string is a sequence  *)
(* of characters; "A" is the upper-case form of "a".                        *)

\* longest file name and longest query
MaxStrLen == 2

Chars == {"a", "A", "b"}

\* all strings of at most n characters
Strings(n) == UNION {[1..k -> Chars] : k \in 0..n}

LowerChar(ch) == IF ch = "A" THEN "a" ELSE ch

\* strings.ToLower
ToLower(s) == [k \in 1..Len(s) |-> LowerChar(s[k])]

\* strings.Contains: sub occurs in s
IsSubstring(sub, s) ==
  \E i \in 0..Len(s) :
    i + Len(sub) <= Len(s) /\ SubSeq(s, i + 1, i + Len(sub)) = sub

\* containsIgnoreCase as the source has it
containsIgnoreCase(s, substr) ==
  Len(s) > 0 /\ Len(substr) > 0 /\ (s = substr \/ Len(s) > Len(substr))

FileEntry(name, description, subject) ==
  [fileName |-> name, description |-> description, subject |-> subject]

\* FileIndex.Search: the records the scan appends to results
Search(index, query) ==
  {f \in index : \/ containsIgnoreCase(f.fileName, query)
                 \/ containsIgnoreCase(f.description, query)
                 \/ containsIgnoreCase(f.subject, query)}

\* an index of two records and a query
InitSearch ==
  /\ RepIdle
  /\ XferIdle
  /\ ThrIdle
  /\ DiscIdle
  /\ IdxIdle
  /\ TailIdle
  /\ \E name \in Strings(MaxStrLen), description \in Strings(1),
        subject \in Strings(1), query \in Strings(MaxStrLen) :
       calc = [op |-> "Search",
               arg |-> [index |-> {FileEntry(name, description, subject),
                                   FileEntry(<<"b">>, <<>>, <<"A">>)},
                        query |-> query],
               done |-> FALSE, out |-> {}]

ApplySearch ==
  /\ calc.op = "Search"
  /\ ~calc.done
  /\ calc' = [calc EXCEPT !.done = TRUE,
                          !.out = Search(calc.arg.index, calc.arg.query)]
  /\ UNCHANGED <<repVars, xferVars, thrVars, discVars, idxVars, tailVars>>

NextSearch == ApplySearch

SpecSearch == InitSearch /\ [][NextSearch]_vars

\* query occurs in s, letter case aside
Matches(s, query) == IsSubstring(ToLower(query), ToLower(s))

(* C23: Search returns exactly the indexed files whose name, description or *)
(* subject contains the query as a substring, letter case aside.            *)
C23_SearchExact ==
  (calc.op = "Search" /\ calc.done) =>
    calc.out = {f \in calc.arg.index :
                  \/ Matches(f.fileName, calc.arg.query)
                  \/ Matches(f.description, calc.arg.query)
                  \/ Matches(f.subject, calc.arg.query)}

-----------------------------------------------------------------------------
(* The CID generators: models.GenerateCID (on the file record),            *)
(* utils.GenerateCID and IntegrityService.GenerateCID / VerifyCID.          *)

\* hexadecimal digits kept by the prefixed CID (32 in the source)
CIDHexLen == 2
\* longest content a CID is computed for
MaxCIDContentLen == 3

CIDPrefix == <<"k", "x", "-">>

\* utils.GenerateCID and IntegrityService.GenerateCID: "kx-" + hash[:32]
PrefixedCID(content) ==
  CIDPrefix \o SubSeq(HexEncode(HashBytes(content)), 1, CIDHexLen)

\* IntegrityService.VerifyCID
VerifyCID(content, cid) == PrefixedCID(content) = cid

CIDContents == UNION {Contents(n) : n \in 0..MaxCIDContentLen}

\* a content that is uploaded and a content that is offered for it later
InitCID ==
  /\ RepIdle
  /\ XferIdle
  /\ ThrIdle
  /\ DiscIdle
  /\ IdxIdle
  /\ TailIdle
  /\ \E c \in CIDContents, other \in CIDContents :
       calc = [op |-> "VerifyCID", arg |-> [content |-> c, other |-> other],
               done |-> FALSE, out |-> <<>>]

\* the record NewAcademicFile makes at upload, then VerifyCID of the same
\* content and of the other content against the record's CID
ApplyVerifyCID ==
  /\ calc.op = "VerifyCID"
  /\ ~calc.done
  /\ LET record == NewAcademicFile("p1", calc.arg.content) IN
       calc' = [calc EXCEPT
                  !.done = TRUE,
                  !.out = [recordCID |-> record.cid,
                           same |-> VerifyCID(calc.arg.content, record.cid),
                           other |-> VerifyCID(calc.arg.other, record.cid)]]
  /\ UNCHANGED <<repVars, xferVars, thrVars, discVars, idxVars, tailVars>>

NextCID == ApplyVerifyCID

SpecCID == InitCID /\ [][NextCID]_vars

(* C24: the CID on the record made at upload is the CID the generators      *)
(* recompute from the content, so VerifyCID accepts the untampered content  *)
(* and rejects every content with a different digest.                       *)
C24_OneCIDFunction ==
  (calc.op = "VerifyCID" /\ calc.done) =>
    /\ calc.out.recordCID = PrefixedCID(calc.arg.content)
    /\ calc.out.same
    /\ HashBytes(calc.arg.other) # HashBytes(calc.arg.content)
         => ~calc.out.other

-----------------------------------------------------------------------------
\* task t has read a peer's score and has not yet written the sum back
InsideUpdate(t, p) ==
  /\ upd[t].pc = "store"
  /\ upd[t].ev.peer = p
  /\ ~upd[t].stale

(* C25: no two tasks are at once inside a read-modify-write of the same     *)
(* peer's stored score, so that no applied delta can be lost.               *)
C25_ScoreUpdatesSerialized ==
  \A p \in Peers :
    \A t1 \in UpdTasks, t2 \in UpdTasks :
      (t1 # t2) => ~(InsideUpdate(t1, p) /\ InsideUpdate(t2, p))

-----------------------------------------------------------------------------
(* C26: whatever UpdateReputation does between the start of an Acquire(b)   *)
(* call and its return, the grant exceeds neither b nor the balance times   *)
(* the token size in force when the tokens are deducted.                    *)
C26_GrantUnderTierChange ==
  [][\A c \in AcqCallers :
       (acq[c].pc = "wait" /\ acq'[c].pc = "idle") =>
         /\ lastGrant'.granted <= acq[c].bytes
         /\ lastGrant'.granted <= thr.tokens * thr.tokenSize]_vars

-----------------------------------------------------------------------------
(* C27: for every rater and target at most one rating is ever stored, also  *)
(* when the rater submits two ratings of the target before the rating       *)
(* consumer has processed the first.                                        *)
C27_OneRatingPerPair ==
  \A r \in Peers, t \in Peers \cup RatedFiles :
    Cardinality({k \in 1..Len(ratingStore) :
                   ratingStore[k].rater = r /\ ratingStore[k].target = t}) <= 1

-----------------------------------------------------------------------------
(* The publishers of discovery events and the broadcaster, under fair       *)
(* scheduling: the broadcaster goroutine and the cleanup goroutine each     *)
(* take their next step whenever it stays possible.                         *)
NextSweep ==
  \/ \E p \in Peers : RegisterPeer(p)
  \/ \E p \in Peers : HandleLeave(p)
  \/ \E p \in Peers : TimeElapses(p)
  \/ SweepBegin
  \/ \E p \in Peers : SweepVisit(p)
  \/ SweepEnd
  \/ BroadcastReceive
  \/ BroadcastDeliver

SpecSweep ==
  /\ InitDiscovery
  /\ [][NextSweep]_vars
  /\ WF_vars(BroadcastReceive)
  /\ WF_vars(BroadcastDeliver)
  /\ \A p \in Peers : WF_vars(SweepVisit(p))
  /\ WF_vars(SweepEnd)

(* C28: publishing discovery events never deadlocks: while the broadcaster  *)
(* runs, a stale-peer sweep that has taken the discovery lock eventually    *)
(* returns and releases it, however many peers it times out.                *)
C28_SweepReturns == sweep.active ~> ~sweep.active

-----------------------------------------------------------------------------
(* Shutdown.  Server.Stop stops the reputation service, the rating service  *)
(* and discovery, in that order; each Stop closes the service's stop        *)
(* channel and its queue (discovery also its subscriber channels) without   *)
(* taking a lock, and no sender looks at isRunning.  A send on a closed     *)
(* channel is a run-time panic, which ends the process.  A consumer's       *)
(* select between its queue and its closed stop channel may take either     *)
(* case, so the consumer may return while its queue still holds values.     *)

\* operations started in one run of the shutdown specifications
MaxStopOps == 2

StopBudget == ops + rops + dops < MaxStopOps

stopFrame ==
  UNCHANGED <<repVars, xferVars, thrVars, calc, discVars, idxVars, rateVars,
              lateVars>>

\* task sends on the closed channel ch
Panic(sender, ch) ==
  /\ panics' = panics \cup {<<sender, ch>>}
  /\ UNCHANGED <<closed, exited>>
  /\ stopFrame

\* close(ch) for each ch of chs
Close(chs) ==
  /\ closed' = closed \cup chs
  /\ UNCHANGED <<panics, exited>>
  /\ stopFrame

\* a consumer goroutine returns from its loop
Return(consumer) ==
  /\ consumer \notin exited
  /\ exited' = exited \cup {consumer}
  /\ UNCHANGED <<closed, panics>>
  /\ stopFrame

\* ReputationService.Stop, the first service Server.Stop stops
ReputationStop ==
  /\ panics = {}
  /\ "eventChan" \notin closed
  /\ Close({"eventChan"})

\* RatingService.Stop, called by Server.Stop after ReputationService.Stop
RatingStop ==
  /\ panics = {}
  /\ "eventChan" \in closed
  /\ "ratingChan" \notin closed
  /\ Close({"ratingChan"})

\* Discovery.Stop, called by Server.Stop after RatingService.Stop
DiscoveryStop ==
  /\ panics = {}
  /\ "ratingChan" \in closed
  /\ "discEvents" \notin closed
  /\ Close({"discEvents", "subscribers"})

\* RecordLeeching: rs.eventChan <- event, whatever isRunning says
StopRecordLeeching(p) ==
  /\ panics = {}
  /\ StopBudget
  /\ IF "eventChan" \in closed
     THEN Panic("RecordLeeching", "eventChan")
     ELSE RecordLeeching(p)

\* RatePeer: rs.ratingChan <- rating when the checks pass
StopRatePeer(raterID, targetPeerID, sc) ==
  /\ panics = {}
  /\ StopBudget
  /\ IF /\ "ratingChan" \in closed
        /\ RateVerdict(Rating(raterID, "student", targetPeerID, sc)) = "nil"
     THEN Panic("RatePeer", "ratingChan")
     ELSE RatePeer(raterID, targetPeerID, sc)

\* processRatings takes a rating: a closed channel still yields what it holds
StopRatingReceive ==
  /\ panics = {}
  /\ "processRatings" \notin exited
  /\ RatingReceive

StopRatingAdd ==
  /\ panics = {}
  /\ RatingAdd

\* applyRating: RecordRating sends the peer rating on the reputation queue
StopRatingApply ==
  /\ panics = {}
  /\ IF /\ rproc.pc = "stats"
        /\ rproc.rating.targetType = "student"
        /\ RatingDelta(rproc.rating.score) # 0
        /\ "eventChan" \in closed
     THEN Panic("applyRating", "eventChan")
     ELSE RatingApply

\* processRatings returns: ratingChan closed and empty, or stopChan closed
RatingReturn ==
  /\ panics = {}
  /\ rproc.pc = "idle"
  /\ "ratingChan" \in closed
  /\ Return("processRatings")

\* processEvents takes an event
StopConsumerReceive ==
  /\ panics = {}
  /\ "processEvents" \notin exited
  /\ ConsumerReceive

StopApplyEvent ==
  /\ panics = {}
  /\ \/ Store("consumer")
     \/ Settle("consumer")
     \/ Log("consumer")

\* processEvents returns: case <-rs.stopChan, or eventChan closed and empty
ConsumerReturn ==
  /\ panics = {}
  /\ upd["consumer"].pc = "idle"
  /\ "eventChan" \in closed
  /\ Return("processEvents")

\* RegisterPeer: d.eventChan <- event in its first two branches
StopRegisterPeer(p) ==
  /\ panics = {}
  /\ StopBudget
  /\ IF /\ "discEvents" \in closed
        /\ RegisterBranch(p \in registry, knownPeers[p] # "absent") # "refresh"
     THEN ~sweep.active /\ Panic("RegisterPeer", "discEvents")
     ELSE RegisterPeer(p)

\* HandleLeave: d.eventChan <- event for a registered peer
StopHandleLeave(p) ==
  /\ panics = {}
  /\ StopBudget
  /\ IF "discEvents" \in closed /\ p \in registry
     THEN ~sweep.active /\ Panic("HandleLeave", "discEvents")
     ELSE HandleLeave(p)

StopTimeElapses(p) ==
  /\ panics = {}
  /\ TimeElapses(p)

\* cleanupStale: case <-ticker.C, while the goroutine is running
StopSweepBegin ==
  /\ panics = {}
  /\ "cleanupStale" \notin exited
  /\ SweepBegin

\* removeStale: d.eventChan <- event for a registered stale peer
StopSweepVisit(p) ==
  /\ panics = {}
  /\ IF "discEvents" \in closed /\ p \in registry
     THEN sweep.active /\ p \in sweep.stale /\ Panic("removeStale", "discEvents")
     ELSE SweepVisit(p)

StopSweepEnd ==
  /\ panics = {}
  /\ SweepEnd

\* Subscribe, before Discovery.Stop (a later subscription adds an open
\* channel and changes nothing for the closed ones)
StopSubscribe ==
  /\ panics = {}
  /\ "subscribers" \notin closed
  /\ Subscribe

\* broadcastEvents takes an event: a closed channel still yields what it holds
StopBroadcastReceive ==
  /\ panics = {}
  /\ "broadcastEvents" \notin exited
  /\ BroadcastReceive

\* broadcastEvents offers the event in hand to every subscriber channel
StopBroadcastDeliver ==
  /\ panics = {}
  /\ IF "subscribers" \in closed /\ subscribers # <<>>
     THEN bcast # <<>> /\ ~sweep.active /\ Panic("broadcastEvents", "subscribers")
     ELSE BroadcastDeliver

\* broadcastEvents returns: case <-d.stopChan, or eventChan closed and empty
BroadcastReturn ==
  /\ panics = {}
  /\ bcast = <<>>
  /\ "discEvents" \in closed
  /\ Return("broadcastEvents")

NextShutdown ==
  \/ ReputationStop
  \/ RatingStop
  \/ DiscoveryStop
  \/ \E p \in Peers : StopRecordLeeching(p)
  \/ \E r \in Peers, t \in Peers : StopRatePeer(r, t, MaxRatingValue)
  \/ StopRatingReceive
  \/ StopRatingAdd
  \/ StopRatingApply
  \/ RatingReturn
  \/ StopConsumerReceive
  \/ StopApplyEvent
  \/ ConsumerReturn
  \/ \E p \in Peers : StopRegisterPeer(p)
  \/ \E p \in Peers : StopHandleLeave(p)
  \/ \E p \in Peers : StopTimeElapses(p)
  \/ StopSweepBegin
  \/ \E p \in Peers : StopSweepVisit(p)
  \/ StopSweepEnd
  \/ StopSubscribe
  \/ StopBroadcastReceive
  \/ StopBroadcastDeliver
  \/ BroadcastReturn

\* every peer registered, every service started
SpecShutdown == InitRating /\ [][NextShutdown]_vars

(* C29: shutdown never causes a send on a closed queue: no task sends on    *)
(* the reputation event queue, the discovery event queue or a subscriber    *)
(* channel after it has been closed.                                        *)
C29_NoSendAfterClose ==
  \A x \in panics : x[2] \notin {"eventChan", "discEvents", "subscribers"}

-----------------------------------------------------------------------------
(* The reputation queue and its consumer through a shutdown, under fair     *)
(* scheduling: the consumer goroutine takes its next step whenever it       *)
(* stays possible.  Every Record call that returns has queued one event     *)
(* for a registered peer.                                                   *)
NextDrain ==
  \/ \E p \in Peers : StopRecordLeeching(p)
  \/ StopConsumerReceive
  \/ StopApplyEvent
  \/ ReputationStop
  \/ ConsumerReturn

SpecDrain ==
  /\ InitRating
  /\ [][NextDrain]_vars
  /\ WF_vars(StopConsumerReceive)
  /\ WF_vars(StopApplyEvent)

(* C30: every reputation event a Record* call has placed on the queue is    *)
(* eventually applied by the consumer, also when it is still queued at the  *)
(* moment Stop is called (a run ended by a panic aside).                    *)
C30_QueuedEventsApplied ==
  \A k \in 1..MaxStopOps :
    (ops >= k) ~> (Len(eventHistory) >= k \/ panics # {})

-----------------------------------------------------------------------------
(* C31: immediately after an announcement for peer P has been processed, P  *)
(* is marked online in the registry, in every interleaving of               *)
(* announcements with heartbeat probes, leaves and the stale-peer sweep.    *)
C31_AnnouncedIsOnline ==
  [][\A p \in Peers : Announced(p) => online'[p]]_vars

-----------------------------------------------------------------------------
(* C32: whenever a download by peer P is accepted by the gate, every        *)
(* DOWNLOAD event generated by P's previously accepted downloads has        *)
(* already been applied to P's score: none waits in the queue and none is   *)
(* in the consumer's hands with its delta not yet stored.                   *)
C32_GateSeesEarlierDownloads ==
  [][\A h \in Handlers :
       (req[h].pc = "dl_gate" /\ req'[h].pc = "dl_get") =>
         LET p == req[h].peer IN
           /\ \A k \in 1..Len(eventChan) :
                ~(eventChan[k].type = "DOWNLOAD" /\ eventChan[k].peer = p)
           /\ ~(/\ upd["consumer"].pc = "store"
                /\ upd["consumer"].ev.type = "DOWNLOAD"
                /\ upd["consumer"].ev.peer = p)]_vars

-----------------------------------------------------------------------------
(* The transfer manager under fair scheduling: every file and network       *)
(* operation of a running transfer terminates, so each step of a transfer   *)
(* is taken when it stays possible.  Nothing obliges anyone to read the     *)
(* progress channel, to start a transfer or to cancel one.                  *)
SpecTransferFair ==
  /\ SpecTransfer
  /\ \A t \in Callers :
       /\ WF_vars(RecvConnect(t))
       /\ WF_vars(RecvCreate(t))
       /\ WF_vars(RecvChunk(t))
       /\ WF_vars(RecvNotify(t))
       /\ WF_vars(RecvVerify(t))
       /\ WF_vars(ServeLookup(t))
       /\ WF_vars(ServeAccept(t))
       /\ WF_vars(ServeOpen(t))
       /\ WF_vars(ServeChunk(t))
       /\ WF_vars(ServeNotify(t))
       /\ WF_vars(completeTransfer(t))
       /\ WF_vars(ReleaseSlot(t))

(* C33: every transfer that has acquired a concurrency slot eventually      *)
(* releases it, also when no task ever reads the progress channel.          *)
C33_SlotEventuallyReleased == (semaphore > 0) ~> (semaphore = 0)

-----------------------------------------------------------------------------
(* The background goroutines through Server.Stop, under fair scheduling.    *)
(* Each ticker loop (checkInactivityDecay, sendHeartbeats, cleanupStale)    *)
(* returns by case <-stopChan once its service is stopped and it is back    *)
(* at its select.                                                           *)

\* the goroutines started by the three services
BackgroundTasks ==
  {"processEvents", "checkInactivityDecay", "processRatings",
   "broadcastEvents", "sendHeartbeats", "cleanupStale"}

\* checkInactivityDecay returns: case <-rs.stopChan
DecayReturn ==
  /\ panics = {}
  /\ upd["decay"].pc = "idle"
  /\ decayTodo = {}
  /\ "eventChan" \in closed
  /\ Return("checkInactivityDecay")

\* sendHeartbeats returns: case <-d.stopChan
HeartbeatReturn ==
  /\ panics = {}
  /\ "discEvents" \in closed
  /\ Return("sendHeartbeats")

\* cleanupStale returns: case <-d.stopChan, removeStale not running
SweeperReturn ==
  /\ panics = {}
  /\ ~sweep.active
  /\ "discEvents" \in closed
  /\ Return("cleanupStale")

NextStop ==
  \/ ReputationStop
  \/ RatingStop
  \/ DiscoveryStop
  \/ \E r \in Peers, t \in Peers : StopRatePeer(r, t, MaxRatingValue)
  \/ StopRatingReceive
  \/ StopRatingAdd
  \/ StopRatingApply
  \/ RatingReturn
  \/ StopConsumerReceive
  \/ StopApplyEvent
  \/ ConsumerReturn
  \/ DecayReturn
  \/ \E p \in Peers : StopRegisterPeer(p)
  \/ \E p \in Peers : StopTimeElapses(p)
  \/ StopSweepBegin
  \/ \E p \in Peers : StopSweepVisit(p)
  \/ StopSweepEnd
  \/ SweeperReturn
  \/ StopBroadcastReceive
  \/ StopBroadcastDeliver
  \/ BroadcastReturn
  \/ HeartbeatReturn

SpecStop ==
  /\ InitRating
  /\ [][NextStop]_vars
  /\ WF_vars(RatingStop)
  /\ WF_vars(DiscoveryStop)
  /\ WF_vars(StopRatingReceive)
  /\ WF_vars(StopRatingAdd)
  /\ WF_vars(StopRatingApply)
  /\ WF_vars(RatingReturn)
  /\ WF_vars(StopConsumerReceive)
  /\ WF_vars(StopApplyEvent)
  /\ WF_vars(ConsumerReturn)
  /\ WF_vars(DecayReturn)
  /\ \A p \in Peers : WF_vars(StopSweepVisit(p))
  /\ WF_vars(StopSweepEnd)
  /\ WF_vars(SweeperReturn)
  /\ WF_vars(StopBroadcastReceive)
  /\ WF_vars(StopBroadcastDeliver)
  /\ WF_vars(BroadcastReturn)
  /\ WF_vars(HeartbeatReturn)

(* C34: after Stop every background task eventually exits: the reputation  *)
(* consumer and the decay task, the rating consumer, the discovery          *)
(* broadcaster, heartbeat sender and stale-peer sweeper, also when Stop     *)
(* comes while a task is publishing (a run ended by the panic of a caller   *)
(* of RatePeer or RegisterPeer aside).                                      *)
C34_TasksExitAfterStop ==
  ("eventChan" \in closed) ~>
    \/ exited = BackgroundTasks
    \/ \E x \in panics : x[1] \in {"RatePeer", "RegisterPeer"}

-----------------------------------------------------------------------------
(* C35: applying an UPLOAD event increases the peer's upload counter by one *)
(* and applying a DOWNLOAD event its download counter by one: when the      *)
(* application of such an event to a peer's current Student ends, the       *)
(* counter is at least one.                                                 *)
C35_AppliedEventsCounted ==
  [][\A t \in UpdTasks :
       (upd[t].pc = "log" /\ upd'[t].pc = "idle" /\ ~upd[t].stale) =>
         /\ upd[t].ev.type = "UPLOAD" => uploads'[upd[t].ev.peer] >= 1
         /\ upd[t].ev.type = "DOWNLOAD" => downloads'[upd[t].ev.peer] >= 1]_vars

-----------------------------------------------------------------------------
(* C36: a decay cycle applies an INACTIVITY event only to a registered      *)
(* peer whose last_seen is more than 24h old; a peer whose last_seen is     *)
(* within 24h is left unchanged.                                            *)
C36_DecayOnlyInactive ==
  [][(upd["decay"].pc = "idle" /\ upd'["decay"].pc = "store") =>
       upd'["decay"].ev.peer \in idle24h]_vars

-----------------------------------------------------------------------------
-----------------------------------------------------------------------------
(* analytics.ThrottlingManager: one Throttler per peer, created by the      *)
(* first GetThrottler of the peer and updated by the later ones.  The id    *)
(* of a Throttler stands for the identity of the object.                    *)

\* manager operations in one run
MaxManagerOps == 4

\* UpdateReputation that re-derives the tier's values and refills the
\* bucket on every call
UpdatedThrottlerReset(t, newReputation) ==
  [t EXCEPT !.tier = determineTier(newReputation),
            !.bandwidth = GetBandwidth(determineTier(newReputation)),
            !.tokenSize = GetBandwidth(determineTier(newReputation))
                            \div TokenBucketSize,
            !.tokens = t.maxTokens]

\* Throttler.UpdateReputation as a function of the Throttler's fields
UpdatedThrottler(t, newReputation) ==
  IF determineTier(newReputation) # t.tier
  THEN [t EXCEPT !.tier = determineTier(newReputation),
                 !.bandwidth = GetBandwidth(determineTier(newReputation)),
                 !.tokenSize = GetBandwidth(determineTier(newReputation))
                                 \div TokenBucketSize]
  ELSE t

InitManager ==
  /\ RepIdle
  /\ XferIdle
  /\ ThrIdle
  /\ AuxIdle

mgrFrame ==
  UNCHANGED <<repVars, xferVars, thrVars, calc, discVars, idxVars, rateVars,
              stopVars, cacheVars, scan>>

\* GetThrottler(peerID, reputation), under tm.mutex
GetThrottler(peerID, reputation) ==
  /\ mops < MaxManagerOps
  /\ mops' = mops + 1
  /\ IF throttlers[peerID] # NoThrottler
     THEN /\ throttlers' = [throttlers EXCEPT ![peerID] =
                              UpdatedThrottler(@, reputation)]
          /\ lastGet' = [peer |-> peerID, reputation |-> reputation,
                         existed |-> TRUE, returned |-> throttlers[peerID].id]
     ELSE /\ throttlers' = [throttlers EXCEPT ![peerID] =
                              [tier |-> determineTier(reputation),
                               bandwidth |-> NewThrottler(reputation).bandwidth,
                               tokens |-> NewThrottler(reputation).tokens,
                               maxTokens |-> NewThrottler(reputation).maxTokens,
                               tokenSize |-> NewThrottler(reputation).tokenSize,
                               isRunning |-> TRUE,
                               id |-> mops + 1]]
          /\ lastGet' = [peer |-> peerID, reputation |-> reputation,
                         existed |-> FALSE, returned |-> mops + 1]
  /\ mgrFrame

\* RemoveThrottler(peerID): Stop and delete, under tm.mutex
RemoveThrottler(peerID) ==
  /\ mops < MaxManagerOps
  /\ mops' = mops + 1
  /\ throttlers' = [throttlers EXCEPT ![peerID] = NoThrottler]
  /\ UNCHANGED lastGet
  /\ mgrFrame

\* the refill goroutine of peerID's Throttler on a tick
ThrottlerRefill(peerID) ==
  /\ throttlers[peerID] # NoThrottler
  /\ RefillTokens(throttlers[peerID].tokens, throttlers[peerID].maxTokens)
       # throttlers[peerID].tokens
  /\ throttlers' = [throttlers EXCEPT ![peerID].tokens =
                      RefillTokens(@, throttlers[peerID].maxTokens)]
  /\ UNCHANGED <<lastGet, mops>>
  /\ mgrFrame

\* Acquire of one token's worth of bytes on peerID's Throttler
ThrottlerAcquire(peerID) ==
  /\ mops < MaxManagerOps
  /\ mops' = mops + 1
  /\ throttlers[peerID] # NoThrottler
  /\ throttlers[peerID].tokens >= 1
  /\ throttlers' = [throttlers EXCEPT ![peerID].tokens = @ - 1]
  /\ UNCHANGED lastGet
  /\ mgrFrame

NextManager ==
  \/ \E p \in Peers, r \in Reputations : GetThrottler(p, r)
  \/ \E p \in Peers : RemoveThrottler(p)
  \/ \E p \in Peers : ThrottlerRefill(p)
  \/ \E p \in Peers : ThrottlerAcquire(p)

SpecManager == InitManager /\ [][NextManager]_vars

(* C37: UpdateReputation leaves tier, bandwidth, token size and token       *)
(* balance unchanged when the new score maps to the current tier; when the  *)
(* tier changes, tier, bandwidth and token size are replaced together by    *)
(* the new tier's values (token size = bandwidth / 10) and the balance is   *)
(* kept; GetThrottler for an existing peer returns the same throttler       *)
(* after this update and creates no second one.                             *)
C37_UpdateKeepsThrottler ==
  [][\A p \in Peers, r \in Reputations :
       (GetThrottler(p, r) /\ throttlers[p] # NoThrottler) =>
         LET old == throttlers[p]
             new == throttlers'[p]
             tier == IF r < 30 THEN "Leecher"
                     ELSE IF r >= 80 THEN "Premium" ELSE "Normal"
         IN  /\ lastGet'.returned = old.id
             /\ new.id = old.id
             /\ \A q \in Peers \ {p} : throttlers'[q] = throttlers[q]
             /\ new.tokens = old.tokens
             /\ new.maxTokens = old.maxTokens
             /\ new.isRunning = old.isRunning
             /\ IF tier = old.tier
                THEN new = old
                ELSE /\ new.tier = tier
                     /\ new.bandwidth = GetBandwidth(tier)
                     /\ new.tokenSize = new.bandwidth \div 10]_vars

\* GetThrottler has moved an existing throttler with a partly used bucket
\* to another tier
C37_Witness ==
  /\ lastGet.existed
  /\ throttlers[lastGet.peer] # NoThrottler
  /\ throttlers[lastGet.peer].id = lastGet.returned
  /\ throttlers[lastGet.peer].tier = "Premium"
  /\ throttlers[lastGet.peer].bandwidth # NewThrottler(50).bandwidth
  /\ throttlers[lastGet.peer].tokens < throttlers[lastGet.peer].maxTokens

-----------------------------------------------------------------------------
(* library.IntegrityService.VerifyAcademicFile and its cache.  Each file    *)
(* record carries the checksum of its genuine content; callers offer the    *)
(* genuine content or any other.                                            *)

\* integrity operations in one run
MaxVerifyOps == 3

\* the indexed files: CID -> the content the record's Checksum was taken of
GenuineContent == [c \in {"c1", "c2"} |-> IF c = "c1" THEN <<0, 1>> ELSE <<1>>]

\* the contents offered for verification
VerifyContents == UNION {Contents(n) : n \in 1..2}

\* AcademicFile.Checksum of the record of cid
Checksum(cid) == HashBytes(GenuineContent[cid])

\* VerifyContent: ComputeHash(content) == expectedHash
VerifyContent(content, expectedHash) == HashBytes(content) = expectedHash

InitIntegrity ==
  /\ RepIdle
  /\ XferIdle
  /\ ThrIdle
  /\ AuxIdle

cacheFrame ==
  UNCHANGED <<repVars, xferVars, thrVars, calc, discVars, idxVars, rateVars,
              stopVars, mgrVars, scan>>

\* VerifyAcademicFile(file, content): the cached result of the CID if there
\* is one, else VerifyContent, whose result is cached
VerifyAcademicFile(cid, content) ==
  /\ vops < MaxVerifyOps
  /\ vops' = vops + 1
  /\ IF cid \in DOMAIN verifiedCache
     THEN /\ lastVerify' = [cid |-> cid, content |-> content,
                            result |-> verifiedCache[cid]]
          /\ UNCHANGED verifiedCache
     ELSE /\ lastVerify' = [cid |-> cid, content |-> content,
                            result |-> VerifyContent(content, Checksum(cid))]
          /\ verifiedCache' =
               [c \in DOMAIN verifiedCache \cup {cid} |->
                  IF c = cid THEN VerifyContent(content, Checksum(cid))
                  ELSE verifiedCache[c]]
  /\ cacheFrame

\* ClearCache
ClearCache ==
  /\ vops < MaxVerifyOps
  /\ vops' = vops + 1
  /\ verifiedCache' = <<>>
  /\ UNCHANGED lastVerify
  /\ cacheFrame

\* InvalidateCache(cid)
InvalidateCache(cid) ==
  /\ vops < MaxVerifyOps
  /\ vops' = vops + 1
  /\ verifiedCache' = [c \in DOMAIN verifiedCache \ {cid} |-> verifiedCache[c]]
  /\ UNCHANGED lastVerify
  /\ cacheFrame

NextIntegrity ==
  \/ \E c \in DOMAIN GenuineContent, b \in VerifyContents :
       VerifyAcademicFile(c, b)
  \/ ClearCache
  \/ \E c \in DOMAIN GenuineContent : InvalidateCache(c)

SpecIntegrity == InitIntegrity /\ [][NextIntegrity]_vars

(* C39: VerifyAcademicFile(file, content) returns true if and only if the   *)
(* digest of the given content equals the file's stored checksum, on every  *)
(* call, whatever an earlier call has cached for the CID.                   *)
C39_VerifyIffDigestMatches ==
  [][vops' = vops + 1 /\ lastVerify' # lastVerify =>
       (lastVerify'.result <=>
          HashBytes(lastVerify'.content) = Checksum(lastVerify'.cid))]_vars

-----------------------------------------------------------------------------
(* library.Indexer.ScanDirectory: a walker goroutine sends the file paths   *)
(* on fileChan and closes it; the workers index each path and send the      *)
(* record on resultChan or the error on errorChan; a closer goroutine       *)
(* waits for the workers and closes resultChan and errorChan; the caller    *)
(* collects resultChan until it is closed.  Nothing receives from           *)
(* errorChan.  Files are counted, not named.                                *)

\* files in the scanned directory, at most
MaxScanFiles == 3
\* worker goroutines in the model (4 in the source)
WorkerCount == 2
\* capacity of fileChan, resultChan and errorChan in the model (100 each)
ScanChanCap == 1

Workers == 1..WorkerCount

\* ScanDirectory has made its channels and started its goroutines
InitScan ==
  /\ RepIdle
  /\ XferIdle
  /\ ThrIdle
  /\ CalcIdle
  /\ DiscIdle
  /\ IdxIdle
  /\ ratingChan = <<>>
  /\ ratingStore = <<>>
  /\ ratingStats = [files |-> 0, peers |-> 0, fileSum |-> 0, peerSum |-> 0]
  /\ rproc = [pc |-> "idle", rating |-> NoRating]
  /\ rateAnswer = NoRateAnswer
  /\ rops = 0
  /\ closed = {}
  /\ panics = {}
  /\ exited = {}
  /\ throttlers = [p \in Peers |-> NoThrottler]
  /\ lastGet = NoGet
  /\ mops = 0
  /\ verifiedCache = <<>>
  /\ lastVerify = NoVerify
  /\ vops = 0
  /\ \E n \in 0..MaxScanFiles :
       scan = [pc |-> "collect", todo |-> n, fileChan |-> 0,
               fileClosed |-> FALSE, worker |-> [w \in Workers |-> "recv"],
               resultChan |-> 0, errorChan |-> 0, resultClosed |-> FALSE,
               indexed |-> 0, collected |-> 0]

scanFrame ==
  UNCHANGED <<repVars, xferVars, thrVars, calc, discVars, idxVars, rateVars,
              stopVars, mgrVars, cacheVars>>

\* the walker: fileChan <- path for the next file
WalkSend ==
  /\ scan.pc = "collect"
  /\ scan.todo > 0
  /\ scan.fileChan < ScanChanCap
  /\ scan' = [scan EXCEPT !.todo = @ - 1, !.fileChan = @ + 1]
  /\ scanFrame

\* the walker: close(fileChan) after filepath.Walk
WalkClose ==
  /\ scan.pc = "collect"
  /\ scan.todo = 0
  /\ ~scan.fileClosed
  /\ scan' = [scan EXCEPT !.fileClosed = TRUE]
  /\ scanFrame

\* worker w: for filePath := range fileChan
WorkerReceive(w) ==
  /\ scan.pc = "collect"
  /\ scan.worker[w] = "recv"
  /\ scan.fileChan > 0
  /\ scan' = [scan EXCEPT !.fileChan = @ - 1, !.worker[w] = "index"]
  /\ scanFrame

\* worker w: idx.IndexFile succeeds or fails
WorkerIndexFile(w) ==
  /\ scan.pc = "collect"
  /\ scan.worker[w] = "index"
  /\ \/ scan' = [scan EXCEPT !.worker[w] = "result", !.indexed = @ + 1]
     \/ scan' = [scan EXCEPT !.worker[w] = "error"]
  /\ scanFrame

\* worker w: errorChan <- err
WorkerSendError(w) ==
  /\ scan.pc = "collect"
  /\ scan.worker[w] = "error"
  /\ scan.errorChan < ScanChanCap
  /\ scan' = [scan EXCEPT !.errorChan = @ + 1, !.worker[w] = "recv"]
  /\ scanFrame

\* worker w: resultChan <- file
WorkerSendResult(w) ==
  /\ scan.pc = "collect"
  /\ scan.worker[w] = "result"
  /\ scan.resultChan < ScanChanCap
  /\ scan' = [scan EXCEPT !.resultChan = @ + 1, !.worker[w] = "recv"]
  /\ scanFrame

\* worker w: the range ends on the closed, empty fileChan; wg.Done()
WorkerDone(w) ==
  /\ scan.pc = "collect"
  /\ scan.worker[w] = "recv"
  /\ scan.fileChan = 0
  /\ scan.fileClosed
  /\ scan' = [scan EXCEPT !.worker[w] = "done"]
  /\ scanFrame

\* the closer: wg.Wait(), close(resultChan), close(errorChan)
CloserClose ==
  /\ scan.pc = "collect"
  /\ \A w \in Workers : scan.worker[w] = "done"
  /\ ~scan.resultClosed
  /\ scan' = [scan EXCEPT !.resultClosed = TRUE]
  /\ scanFrame

\* the caller: for file := range resultChan, one record appended
Collect ==
  /\ scan.pc = "collect"
  /\ scan.resultChan > 0
  /\ scan' = [scan EXCEPT !.resultChan = @ - 1, !.collected = @ + 1]
  /\ scanFrame

\* the caller: the range ends on the closed, empty resultChan; return
ScanReturn ==
  /\ scan.pc = "collect"
  /\ scan.resultChan = 0
  /\ scan.resultClosed
  /\ scan' = [scan EXCEPT !.pc = "returned"]
  /\ scanFrame

NextScan ==
  \/ WalkSend
  \/ WalkClose
  \/ \E w \in Workers : WorkerReceive(w)
  \/ \E w \in Workers : WorkerIndexFile(w)
  \/ \E w \in Workers : WorkerSendError(w)
  \/ \E w \in Workers : WorkerSendResult(w)
  \/ \E w \in Workers : WorkerDone(w)
  \/ CloserClose
  \/ Collect
  \/ ScanReturn

\* every goroutine of the scan is scheduled fairly; IndexFile terminates
SpecScan ==
  /\ InitScan
  /\ [][NextScan]_vars
  /\ WF_vars(WalkSend)
  /\ WF_vars(WalkClose)
  /\ \A w \in Workers :
       /\ WF_vars(WorkerReceive(w))
       /\ WF_vars(WorkerIndexFile(w))
       /\ WF_vars(WorkerSendError(w))
       /\ WF_vars(WorkerSendResult(w))
       /\ WF_vars(WorkerDone(w))
  /\ WF_vars(CloserClose)
  /\ WF_vars(Collect)
  /\ WF_vars(ScanReturn)

(* C40: ScanDirectory always terminates and returns the successfully        *)
(* indexed files, for any number of files and of files that fail indexing:  *)
(* no worker stays blocked on reporting an error and the result channel is  *)
(* eventually closed.                                                       *)
C40_ScanTerminates ==
  <>(scan.pc = "returned" /\ scan.resultClosed /\ scan.collected = scan.indexed)

====
